---- MODULE Spec2Model ----
(***************************************************************************)
(* The style rule engine of vitarx-lib/css-in-js (class CssInJs) and the   *)
(* helpers of utils.ts it calls.                                           *)
(*                                                                         *)
(* Strings the code inspects character by character (selectors, property   *)
(* keys) are sequences of one-character strings.  Property values are      *)
(* sequences of tokens: " " is white space, "!important" is the priority   *)
(* marker, every other token is a run of non-blank characters.             *)
(***************************************************************************)
EXTENDS Integers, Sequences, FiniteSets, TLC

\* ------------------------------------------------------------------ bounds
\* style rules inserted, and names generated, in one run
MaxRules == 2
\* the length of the selectors given to the selector resolver on its own
MaxSelectorLen == 3
\* the number of entries of the style maps given to the serializer on its own
MaxEntries == 2
\* the number of generated names that are followed
MaxNames == 3

\* ------------------------------------------------------- string primitives
LowerChars == <<"a","b","c","d","e","f","g","h","i","j","k","l","m",
                "n","o","p","q","r","s","t","u","v","w","x","y","z">>
UpperChars == <<"A","B","C","D","E","F","G","H","I","J","K","L","M",
                "N","O","P","Q","R","S","T","U","V","W","X","Y","Z">>

IsLower(c) == \E i \in DOMAIN LowerChars : LowerChars[i] = c
IsUpper(c) == \E i \in DOMAIN UpperChars : UpperChars[i] = c
ToLowerChar(c) ==
    IF IsUpper(c) THEN LowerChars[CHOOSE i \in DOMAIN UpperChars : UpperChars[i] = c]
    ELSE c

\* String.prototype.trim
RECURSIVE TrimLeft(_)
TrimLeft(s) == IF s # <<>> /\ Head(s) = " " THEN TrimLeft(Tail(s)) ELSE s
RECURSIVE TrimRight(_)
TrimRight(s) ==
    IF s # <<>> /\ s[Len(s)] = " " THEN TrimRight(SubSeq(s, 1, Len(s) - 1)) ELSE s
Trim(s) == TrimRight(TrimLeft(s))

\* String.prototype.startsWith, for a one-character needle
StartsWith(s, c) == s # <<>> /\ Head(s) = c

\* s.split(c)[0]: the text before the first c
RECURSIVE SplitHead(_, _)
SplitHead(s, c) ==
    IF s = <<>> \/ Head(s) = c THEN <<>> ELSE <<Head(s)>> \o SplitHead(Tail(s), c)

Includes(s, t) == \E i \in DOMAIN s : s[i] = t

\* s.replace(t, ''): the first occurrence of t is removed
RECURSIVE RemoveFirst(_, _)
RemoveFirst(s, t) ==
    IF s = <<>> THEN <<>>
    ELSE IF Head(s) = t THEN Tail(s)
    ELSE <<Head(s)>> \o RemoveFirst(Tail(s), t)

\* ----------------------------------------------------------------- utils.ts
\* values of a style map: a string (token sequence), a number, or null
StrVal(s) == [t |-> "str", s |-> s, n |-> 0]
NumVal(n) == [t |-> "num", s |-> <<>>, n |-> n]
NullVal == [t |-> "null", s |-> <<>>, n |-> 0]
\* a value that is neither a string nor a number, such as true or an object
OtherVal == [t |-> "other", s |-> <<>>, n |-> 0]
\* the result null of formatStyleValue
Invalid == <<"<null>">>

removePriority(value) ==
    IF Includes(value, "!important") THEN Trim(RemoveFirst(value, "!important"))
    ELSE Trim(value)

\* a formatStyleValue that asks only whether the trimmed string is empty
formatStyleValueKeepBare(value) ==
    IF value.t = "str"
    THEN IF Len(Trim(value.s)) > 0 THEN Trim(value.s) ELSE Invalid
    ELSE IF value.t = "num" THEN <<ToString(value.n)>>
    ELSE Invalid

formatStyleValue(value) ==
    IF value.t = "str" /\ Len(removePriority(value.s)) > 0
    THEN IF Len(Trim(value.s)) > 0 THEN Trim(value.s) ELSE Invalid
    ELSE IF value.t = "num" THEN <<ToString(value.n)>>
    ELSE Invalid

\* key.replace(/([a-z])([A-Z])/g, '$1-$2'): matches do not overlap
RECURSIVE Hyphenate(_)
Hyphenate(key) ==
    IF Len(key) < 2 THEN key
    ELSE IF IsLower(key[1]) /\ IsUpper(key[2])
         THEN <<key[1], "-", key[2]>> \o Hyphenate(SubSeq(key, 3, Len(key)))
         ELSE <<key[1]>> \o Hyphenate(Tail(key))

formatStyleKey(key) ==
    LET hyphenated == Hyphenate(key)
    IN [i \in DOMAIN hyphenated |-> ToLowerChar(hyphenated[i])]

\* formatSelector
formatSelector(selector) ==
    LET s == Trim(selector) IN
    IF ~StartsWith(s, ".") /\ ~StartsWith(s, "#") /\ ~StartsWith(s, "@")
    THEN <<".">> \o s ELSE s

\* ------------------------------------------------------------ style inputs
\* A style argument of define: a plain record object, a reactive proxy
\* (ProxySignal), a ref (RefSignal), null, or a string.
PlainStyle(m) == [kind |-> "map", m |-> m, src |-> "", str |-> <<>>]
ProxyStyle(src) == [kind |-> "proxy", m |-> <<>>, src |-> src, str |-> <<>>]
RefStyle(src) == [kind |-> "ref", m |-> <<>>, src |-> src, str |-> <<>>]
NullStyle == [kind |-> "null", m |-> <<>>, src |-> "", str |-> <<>>]
StringStyle(str) == [kind |-> "string", m |-> <<>>, src |-> "", str |-> str]

\* vitarx predicates on a style argument
isProxy(style) == style.kind = "proxy"
isRefSignal(style) == style.kind = "ref"
isSignal(style) == style.kind \in {"proxy", "ref"}

\* the stylesheet backend: CSSStyleDeclaration as property -> value, priority
NoStyle == [p \in {} |-> [v |-> <<>>, prio |-> ""]]

\* a property name a CSSStyleDeclaration accepts
IsCssProperty(p) == p # <<>> /\ (IsLower(p[1]) \/ p[1] = "-")

\* a declaration value as the CSS parser reads it: the marker ends the value
ParsedValue(value) ==
    IF ~Includes(value, "!important") THEN [ok |-> TRUE, v |-> Trim(value), prio |-> ""]
    ELSE IF value[Len(value)] = "!important"
              /\ ~Includes(SubSeq(value, 1, Len(value) - 1), "!important")
              /\ Trim(SubSeq(value, 1, Len(value) - 1)) # <<>>
         THEN [ok |-> TRUE, v |-> Trim(SubSeq(value, 1, Len(value) - 1)),
               prio |-> "important"]
         ELSE [ok |-> FALSE, v |-> <<>>, prio |-> ""]

\* the declarations of a rule text that the CSS parser keeps
GoodDecl(d) == IsCssProperty(d[1]) /\ ParsedValue(d[2]).ok

\* the cascade inside one block: the last important declaration of a
\* property wins, or the last declaration when none is important
Winner(decls, p) ==
    LET mine == {i \in DOMAIN decls : decls[i][1] = p /\ GoodDecl(decls[i])}
        imp == {i \in mine : ParsedValue(decls[i][2]).prio = "important"}
        pick == IF imp # {} THEN imp ELSE mine
    IN CHOOSE i \in pick : \A j \in pick : j <= i

ParseDeclarations(decls) ==
    LET props == {decls[i][1] : i \in {j \in DOMAIN decls : GoodDecl(decls[j])}}
    IN [p \in props |->
          [v |-> ParsedValue(decls[Winner(decls, p)][2]).v,
           prio |-> ParsedValue(decls[Winner(decls, p)][2]).prio]]

\* a setProperty whose empty priority leaves an important property important
setPropertyKeepPriority(style, p, value, prio) ==
    IF ~IsCssProperty(p) THEN style
    ELSE [q \in DOMAIN style \cup {p} |->
            IF q = p
            THEN [v |-> value,
                  prio |-> IF p \in DOMAIN style /\ style[p].prio = "important"
                           THEN "important" ELSE prio]
            ELSE style[q]]

\* CSSStyleDeclaration.setProperty
setProperty(style, p, value, prio) ==
    IF ~IsCssProperty(p) THEN style
    ELSE [q \in DOMAIN style \cup {p} |->
            IF q = p THEN [v |-> value, prio |-> prio] ELSE style[q]]

\* CSSStyleDeclaration.removeProperty
removeProperty(style, p) == [q \in DOMAIN style \ {p} |-> style[q]]

\* ------------------------------------------------------------------ state
VARIABLES
    sheet,            \* sheet id -> cssRules, the ordered rule list of the sheet
    screenSheet,      \* this.sheet.screen: the <<type, screen>> shells created
    rule,             \* CssStyleRule objects, by handle (index)
    sheetCSSRuleMap,  \* sheet id -> (selectorText -> rule handle), where a map exists
    vnodeCssRuleMap,  \* vnode -> (sheet id -> set of selectorText), where a map exists
    onDispose,        \* vnode -> number of teardown callbacks on vnode.scope
    ended,            \* vnodes whose scope has been disposed
    subs,             \* the active subscriptions created by watch
    snapshot,         \* reactive source -> its current style map
    counter,          \* the counter of CssInJs.uuidGenerator
    instance,         \* CssInJs.#instance: the singleton and its options, and how
                      \* many engines the static methods have constructed
    legacy,           \* the engine of src/src/css-in-js.ts: its sheets, its
                      \* onlyCssSelector and the onUnmounted hooks of the widgets
    last              \* the operation that led to this state, with its arguments,
                      \* the declarations the rule it patched had before, and a
                      \* rule whose listener the end of a scope disposed

vars == <<sheet, screenSheet, rule, sheetCSSRuleMap, vnodeCssRuleMap, onDispose,
          ended, subs, snapshot, counter, instance, legacy, last>>

\* ---------------------------------------------------------- the collaborators
VNodes == {"v1", "v2"}
NoVNode == "none"
Sources == {"p1", "p2", "r1"}

\* the property keys color, fontSize and zIndex, shortened
Color == <<"c">>
FontSize == <<"f", "S">>
ZIndex == <<"z", "I">>

MapRed == << <<Color, StrVal(<<"red">>)>>, <<FontSize, StrVal(<<"12px">>)>> >>
MapBlue == << <<Color, StrVal(<<" ", "blue", " ", "!important">>)>>,
              <<FontSize, NullVal>>, <<ZIndex, NumVal(1)>> >>
StyleMaps == {MapRed, MapBlue}
\* a value that closes the block of the rule text early: color: 'red} x'
MapBrace == << <<Color, StrVal(<<"red", "}", "x">>)>> >>

\* --------------------------------------------------------------- the engine
MediaScreenTags == <<"xs", "sm", "md", "lg", "xl">>
mediaScreenRule == {MediaScreenTags[i] : i \in DOMAIN MediaScreenTags}
OptionsPrefix == <<>>

\* the options of an engine: the prefix and, of the breakpoints, the rule of
\* xs; in the options passed each is absent (<<>>) or present (<<value>>)
DefaultOptions == [prefix |-> OptionsPrefix, xs |-> "@media screen and (max-width: 480px)"]

\* deepMergeObject(this.options, options) of the constructor
deepMergeObject(target, options) ==
    [prefix |-> IF options.prefix = <<>> THEN target.prefix ELSE options.prefix[1],
     xs |-> IF options.xs = <<>> THEN target.xs ELSE options.xs[1]]

Dynamic == <<"dynamic", "">>
Readonly == <<"readonly", "">>
SheetIds == {Dynamic, Readonly} \cup ({"dynamic", "readonly"} \X mediaScreenRule)

\* an entry of cssRules: a CSSStyleRule (by handle) or a CSSMediaRule shell
StyleEntry(rid) == [rid |-> rid, shell |-> <<>>]
ShellEntry(id) == [rid |-> 0, shell |-> id]

\* the enumerable properties of a style argument, in order
Entries(style) ==
    CASE style.kind = "map" -> style.m
      [] style.kind \in {"proxy", "ref"} -> snapshot[style.src]
      [] style.kind = "string" ->
           [i \in DOMAIN style.str |-> <<<<ToString(i - 1)>>, StrVal(<<style.str[i]>>)>>]
      [] OTHER -> <<>>

isRecordObject(style) == style.kind \in {"map", "proxy", "ref"}

StyleError == "CssInJs:style must be a record object"
SelectorError == "CssInJs:selector can not start with '@'"
InsertError == "CssInJs.insertRule"

\* cssStyleMapToCssRuleText: the declarations of the rule text, or a TypeError
RECURSIVE RuleDeclarations(_)
RuleDeclarations(entries) ==
    IF entries = <<>> THEN <<>>
    ELSE LET value == formatStyleValue(Head(entries)[2]) IN
         (IF value # Invalid THEN << <<formatStyleKey(Head(entries)[1]), value>> >> ELSE <<>>)
         \o RuleDeclarations(Tail(entries))

\* the pieces `${key}:${value};` joined, without the space after the colon
RECURSIVE DeclarationTextNoSpace(_)
DeclarationTextNoSpace(decls) ==
    IF decls = <<>> THEN <<>>
    ELSE Head(decls)[1] \o <<":">> \o Head(decls)[2] \o <<";">>
         \o DeclarationTextNoSpace(Tail(decls))

\* the pieces `${formatStyleKey(key)}: ${value};` joined with '': the text
\* between the braces of the rule text, character by character, a value
\* being the sequence of its tokens
RECURSIVE DeclarationText(_)
DeclarationText(decls) ==
    IF decls = <<>> THEN <<>>
    ELSE Head(decls)[1] \o <<":", " ">> \o Head(decls)[2] \o <<";">>
         \o DeclarationText(Tail(decls))

cssStyleMapToCssRuleText(style, selectorText) ==
    IF ~isRecordObject(style)
    THEN [err |-> StyleError, selectorText |-> selectorText, decls |-> <<>>]
    ELSE [err |-> "", selectorText |-> selectorText,
          decls |-> RuleDeclarations(Entries(style))]

\* replaceRuleStyle: formatedStyles, later keys overwrite earlier ones
RECURSIVE FormatedStyles(_)
FormatedStyles(entries) ==
    IF entries = <<>> THEN NoStyle
    ELSE LET e == entries[Len(entries)]
             before == FormatedStyles(SubSeq(entries, 1, Len(entries) - 1))
             value == formatStyleValue(e[2])
             newValue == removePriority(value)
         IN IF value = Invalid THEN before
            ELSE [q \in DOMAIN before \cup {formatStyleKey(e[1])} |->
                    IF q = formatStyleKey(e[1])
                    THEN [v |-> newValue,
                          prio |-> IF newValue = value THEN "" ELSE "important"]
                    ELSE before[q]]

RECURSIVE SetAll(_, _, _)
SetAll(style, props, formated) ==
    IF props = {} THEN style
    ELSE LET p == CHOOSE q \in props : TRUE IN
         SetAll(setProperty(style, p, formated[p].v, formated[p].prio),
                props \ {p}, formated)

RECURSIVE RemoveAll(_, _)
RemoveAll(style, props) ==
    IF props = {} THEN style
    ELSE LET p == CHOOSE q \in props : TRUE IN RemoveAll(removeProperty(style, p), props \ {p})

\* a patch that updates and adds, and removes nothing
PatchStyleKeep(style, formated) ==
    SetAll(SetAll(style, DOMAIN style \cap DOMAIN formated, formated),
           DOMAIN formated \ DOMAIN style, formated)

\* the three steps of replaceRuleStyle on the properties of rule.style, given
\* formatedStyles: update or remove what is present, then add what is left
PatchStyle(style, formated) ==
    SetAll(RemoveAll(SetAll(style, DOMAIN style \cap DOMAIN formated, formated),
                     DOMAIN style \ DOMAIN formated),
           DOMAIN formated \ DOMAIN style, formated)

\* a replaceRuleStyle that returns before the patch
replaceRuleStyleNone(r, style) == r.style

\* replaceRuleStyle(rule, style): the rule's style afterwards.  newCssText is
\* `${rule.selectorText} { key: value; }`; rule.style.cssText is the text
\* of the declaration block, which holds no selector and no braces.
replaceRuleStyle(r, style) ==
    LET formated == FormatedStyles(Entries(style))
        newCssText == [selectorText |-> r.selectorText, braces |-> TRUE,
                       decls |-> {<<q, formated[q]>> : q \in DOMAIN formated}]
        cssText == [selectorText |-> <<>>, braces |-> FALSE,
                    decls |-> {<<q, r.style[q]>> : q \in DOMAIN r.style}]
    IN IF cssText = newCssText THEN r.style ELSE PatchStyle(r.style, formated)

\* replaceRuleStyle(rule, style): the properties of rule.style on which it
\* calls setProperty or removeProperty; none when it returns at the
\* comparison of rule.style.cssText with newCssText
TouchedProperties(r, style) ==
    LET formated == FormatedStyles(Entries(style))
        newCssText == [selectorText |-> r.selectorText, braces |-> TRUE,
                       decls |-> {<<q, formated[q]>> : q \in DOMAIN formated}]
        cssText == [selectorText |-> <<>>, braces |-> FALSE,
                    decls |-> {<<q, r.style[q]>> : q \in DOMAIN r.style}]
    IN IF cssText = newCssText THEN {} ELSE DOMAIN r.style \cup DOMAIN formated

\* createUUIDGenerator: convertToBase over the 52 letters
Chars == LowerChars \o UpperChars
\* a conversion that keeps the last digit only
convertToBaseDigit(num) == <<Chars[(num % Len(Chars)) + 1]>>

RECURSIVE convertToBase(_)
convertToBase(num) ==
    IF num < Len(Chars) THEN <<Chars[num + 1]>>
    ELSE convertToBase(num \div Len(Chars)) \o <<Chars[(num % Len(Chars)) + 1]>>

\* makeClassName(prefix) with the random part drawn by the generator
makeClassName(prefix, randomPart) == prefix \o randomPart \o convertToBase(counter)

\* a parseSelector that takes the first character off every head, also off
\* one that has no '.' or '#'
parseSelectorSlice(selector, prefix, randomPart) ==
    LET sel == Trim(selector)
        baseSelector == Trim(SplitHead(SplitHead(sel, ":"), "["))
    IN IF sel = <<>>
       THEN [err |-> "", name |-> makeClassName(OptionsPrefix \o prefix, randomPart),
             selectorText |-> <<".">> \o makeClassName(OptionsPrefix \o prefix, randomPart),
             counter |-> counter + 1]
       ELSE IF StartsWith(sel, "@")
       THEN [err |-> SelectorError, name |-> <<>>, selectorText |-> <<>>,
             counter |-> counter]
       ELSE IF ~StartsWith(baseSelector, ".") /\ ~StartsWith(baseSelector, "#")
       THEN [err |-> "", name |-> SubSeq(baseSelector, 2, Len(baseSelector)),
             selectorText |-> <<".">> \o sel, counter |-> counter]
       ELSE [err |-> "", name |-> Tail(baseSelector), selectorText |-> sel,
             counter |-> counter]

\* a parseSelector that takes a selector without '.' or '#' as it is
parseSelectorNoDot(selector, prefix, randomPart) ==
    LET sel == Trim(selector)
        baseSelector == Trim(SplitHead(SplitHead(sel, ":"), "["))
    IN IF sel = <<>>
       THEN [err |-> "", name |-> makeClassName(OptionsPrefix \o prefix, randomPart),
             selectorText |-> <<".">> \o makeClassName(OptionsPrefix \o prefix, randomPart),
             counter |-> counter + 1]
       ELSE IF StartsWith(sel, "@")
       THEN [err |-> SelectorError, name |-> <<>>, selectorText |-> <<>>,
             counter |-> counter]
       ELSE IF ~StartsWith(baseSelector, ".") /\ ~StartsWith(baseSelector, "#")
       THEN [err |-> "", name |-> baseSelector, selectorText |-> sel,
             counter |-> counter]
       ELSE [err |-> "", name |-> Tail(baseSelector), selectorText |-> sel,
             counter |-> counter]

\* parseSelector(selector, prefix)
parseSelector(selector, prefix, randomPart) ==
    LET sel == Trim(selector)
        baseSelector == Trim(SplitHead(SplitHead(sel, ":"), "["))
    IN IF sel = <<>>
       THEN [err |-> "", name |-> makeClassName(OptionsPrefix \o prefix, randomPart),
             selectorText |-> <<".">> \o makeClassName(OptionsPrefix \o prefix, randomPart),
             counter |-> counter + 1]
       ELSE IF StartsWith(sel, "@")
       THEN [err |-> SelectorError, name |-> <<>>, selectorText |-> <<>>,
             counter |-> counter]
       ELSE IF ~StartsWith(baseSelector, ".") /\ ~StartsWith(baseSelector, "#")
       THEN [err |-> "", name |-> baseSelector, selectorText |-> <<".">> \o sel,
             counter |-> counter]
       ELSE [err |-> "", name |-> Tail(baseSelector), selectorText |-> sel,
             counter |-> counter]

\* a getCssStyleSheet that inserts the shell into the top-level sheet of the
\* type asked for
getCssStyleSheetOwn(screen, type) ==
    IF screen \in mediaScreenRule
    THEN IF <<type, screen>> \notin screenSheet
         THEN [id |-> <<type, screen>>,
               sheet |-> [sheet EXCEPT ![<<type, "">>] = Append(@, ShellEntry(<<type, screen>>))],
               screenSheet |-> screenSheet \cup {<<type, screen>>}]
         ELSE [id |-> <<type, screen>>, sheet |-> sheet, screenSheet |-> screenSheet]
    ELSE [id |-> <<type, "">>, sheet |-> sheet, screenSheet |-> screenSheet]

\* a getCssStyleSheet that inserts a shell without asking whether the
\* breakpoint has one
getCssStyleSheetFresh(screen, type) ==
    IF screen \in mediaScreenRule
    THEN [id |-> <<type, screen>>,
          sheet |-> [sheet EXCEPT ![Readonly] = Append(@, ShellEntry(<<type, screen>>))],
          screenSheet |-> screenSheet \cup {<<type, screen>>}]
    ELSE [id |-> <<type, "">>, sheet |-> sheet, screenSheet |-> screenSheet]

\* getCssStyleSheet(screen, type): the sheet id, and the sheets afterwards
getCssStyleSheet(screen, type) ==
    IF screen \in mediaScreenRule
    THEN IF <<type, screen>> \notin screenSheet
         THEN [id |-> <<type, screen>>,
               sheet |-> [sheet EXCEPT ![Readonly] = Append(@, ShellEntry(<<type, screen>>))],
               screenSheet |-> screenSheet \cup {<<type, screen>>}]
         ELSE [id |-> <<type, screen>>, sheet |-> sheet, screenSheet |-> screenSheet]
    ELSE [id |-> <<type, "">>, sheet |-> sheet, screenSheet |-> screenSheet]

\* watchProxyStyleChange(rule, style): watch(style, callback) unless the rule
\* has a listener; the subscription belongs to the scope that is current
\* a watchProxyStyleChange that does not ask whether the rule has a listener
watchProxyStyleChangeAgain(rules, rid, style, vnode) ==
    [rule |-> [rules EXCEPT ![rid].listener = TRUE],
     subs |-> Append(subs, [rule |-> rid, style |-> style, vnode |-> vnode,
                            pending |-> FALSE])]

watchProxyStyleChange(rules, rid, style, vnode) ==
    IF ~rules[rid].listener
    THEN [rule |-> [rules EXCEPT ![rid].listener = TRUE],
          subs |-> Append(subs, [rule |-> rid, style |-> style, vnode |-> vnode,
                                 pending |-> FALSE])]
    ELSE [rule |-> rules, subs |-> subs]

\* an updateCachedRule that leaves the cached rule as it is unless the style
\* is a proxy
updateCachedRuleKeep(rid, style, vnode) ==
    IF isProxy(style) THEN watchProxyStyleChange(rule, rid, style, vnode)
    ELSE [rule |-> rule, subs |-> subs]

\* updateCachedRule(cssRule, style)
updateCachedRule(rid, style, vnode) ==
    IF isProxy(style) THEN watchProxyStyleChange(rule, rid, style, vnode)
    ELSE [rule |-> [rule EXCEPT ![rid].style = replaceRuleStyle(rule[rid], style)],
          subs |-> subs]

\* a cacheCssRule that creates the map of the sheet and stores nothing in it
cacheCssRuleEmpty(id, selectorText, rid) ==
    [i \in DOMAIN sheetCSSRuleMap \cup {id} |->
        IF i \in DOMAIN sheetCSSRuleMap THEN sheetCSSRuleMap[i] ELSE [t \in {} |-> 0]]

\* a cacheCssRule that keeps every entry in the map of the top-level
\* persistent sheet
cacheCssRuleTopLevel(id, selectorText, rid) ==
    LET map == IF Readonly \in DOMAIN sheetCSSRuleMap THEN sheetCSSRuleMap[Readonly]
               ELSE [t \in {} |-> 0]
    IN [i \in DOMAIN sheetCSSRuleMap \cup {Readonly} |->
          IF i = Readonly THEN [t \in DOMAIN map \cup {selectorText} |->
                                  IF t = selectorText THEN rid ELSE map[t]]
          ELSE sheetCSSRuleMap[i]]

\* cacheCssRule(sheet, selectorText, cssRule)
cacheCssRule(id, selectorText, rid) ==
    LET map == IF id \in DOMAIN sheetCSSRuleMap THEN sheetCSSRuleMap[id]
               ELSE [t \in {} |-> 0]
    IN [i \in DOMAIN sheetCSSRuleMap \cup {id} |->
          IF i = id THEN [t \in DOMAIN map \cup {selectorText} |->
                            IF t = selectorText THEN rid ELSE map[t]]
          ELSE sheetCSSRuleMap[i]]

\* a character that may start the name after '.', '#' or ':'
IsNameStart(c) == IsLower(c) \/ IsUpper(c) \/ c \in {"-", "_"}

\* the backend's parser takes the rule text: CSSStyleSheet.insertRule throws
\* a SyntaxError on a selector with an unclosed bracket, a trailing colon, or
\* a '.', '#' or ':' that no name follows
BackendAccepts(selectorText) ==
    /\ Len(selectorText) > 1
    /\ selectorText[Len(selectorText)] \notin {":", "[", ".", "#"}
    /\ \A i \in DOMAIN selectorText :
          selectorText[i] = "[" => \E j \in DOMAIN selectorText : j > i /\ selectorText[j] = "]"
    /\ \A i \in 1..(Len(selectorText) - 1) :
          /\ selectorText[i] \in {".", "#"} => IsNameStart(selectorText[i + 1])
          /\ selectorText[i] = ":" =>
                IsNameStart(selectorText[i + 1]) \/ selectorText[i + 1] = ":"

\* insertRule also throws when text is left after the rule, as when a '}' in
\* a value closes the block early
BlockAccepted(decls) == \A i \in DOMAIN decls : ~Includes(decls[i][2], "}")

\* addRuleToSheet(sheet, ruleText), with extendCssRule(cssRule, name): the
\* rule object created at the end of the sheet, or an Error
addRuleToSheet(sheets, id, text, name) ==
    IF ~BackendAccepts(text.selectorText) \/ ~BlockAccepted(text.decls)
    THEN [err |-> InsertError, sheet |-> sheets, rule |-> rule]
    ELSE [err |-> "",
          sheet |-> [sheets EXCEPT ![id] = Append(@, StyleEntry(Len(rule) + 1))],
          rule |-> Append(rule, [selectorText |-> text.selectorText, name |-> name,
                                 style |-> ParseDeclarations(text.decls),
                                 listener |-> FALSE, owner |-> NoVNode])]

\* the cache lookup of insertRule: the cached handle, or 0
CachedCssRule(id, selectorText, cache) ==
    IF cache /\ id \in DOMAIN sheetCSSRuleMap /\ selectorText \in DOMAIN sheetCSSRuleMap[id]
    THEN sheetCSSRuleMap[id][selectorText] ELSE 0

\* an insertRule that caches the handle and subscribes before it adds the rule
\* to the sheet
insertRuleCacheFirst(sheets, id, style, ps, cache, vnode) ==
    LET cachedCssRule == CachedCssRule(id, ps.selectorText, cache)
        text == cssStyleMapToCssRuleText(style, ps.selectorText)
        failed == [rid |-> 0, hit |-> FALSE, sheet |-> sheets, rule |-> rule,
                   subs |-> subs, sheetCSSRuleMap |-> sheetCSSRuleMap]
    IN IF ps.err # "" THEN failed @@ [err |-> ps.err]
       ELSE IF cachedCssRule # 0
       THEN LET updated == updateCachedRule(cachedCssRule, style, vnode)
            IN [rid |-> cachedCssRule, hit |-> TRUE, sheet |-> sheets,
                rule |-> updated.rule, subs |-> updated.subs,
                sheetCSSRuleMap |-> sheetCSSRuleMap, err |-> ""]
       ELSE IF text.err # "" THEN failed @@ [err |-> text.err]
       ELSE LET added == addRuleToSheet(sheets, id, text, ps.name)
                watched == IF isSignal(style) /\ added.err = ""
                           THEN watchProxyStyleChange(added.rule, Len(rule) + 1, style, vnode)
                           ELSE [rule |-> added.rule, subs |-> subs]
            IN [rid |-> IF added.err = "" THEN Len(rule) + 1 ELSE 0, hit |-> FALSE,
                sheet |-> added.sheet, rule |-> watched.rule, subs |-> watched.subs,
                sheetCSSRuleMap |->
                    IF cache THEN cacheCssRule(id, ps.selectorText, Len(rule) + 1)
                    ELSE sheetCSSRuleMap,
                err |-> added.err]

\* insertRule(sheet, style, selector, prefix, cache), on the sheets that
\* getCssStyleSheet left and with ps the result of parseSelector: the handle
\* returned and the state afterwards
insertRule(sheets, id, style, ps, cache, vnode) ==
    LET cachedCssRule == CachedCssRule(id, ps.selectorText, cache)
        text == cssStyleMapToCssRuleText(style, ps.selectorText)
        failed == [rid |-> 0, hit |-> FALSE, sheet |-> sheets, rule |-> rule,
                   subs |-> subs, sheetCSSRuleMap |-> sheetCSSRuleMap]
    IN IF ps.err # "" THEN failed @@ [err |-> ps.err]
       ELSE IF cachedCssRule # 0
       THEN LET updated == updateCachedRule(cachedCssRule, style, vnode)
            IN [rid |-> cachedCssRule, hit |-> TRUE, sheet |-> sheets,
                rule |-> updated.rule, subs |-> updated.subs,
                sheetCSSRuleMap |-> sheetCSSRuleMap, err |-> ""]
       ELSE IF text.err # "" THEN failed @@ [err |-> text.err]
       ELSE LET added == addRuleToSheet(sheets, id, text, ps.name)
                watched == IF isSignal(style)
                           THEN watchProxyStyleChange(added.rule, Len(rule) + 1, style, vnode)
                           ELSE [rule |-> added.rule, subs |-> subs]
            IN IF added.err # "" THEN failed @@ [err |-> added.err]
               ELSE [rid |-> Len(rule) + 1, hit |-> FALSE, sheet |-> added.sheet,
                     rule |-> watched.rule, subs |-> watched.subs,
                     sheetCSSRuleMap |->
                         IF cache THEN cacheCssRule(id, ps.selectorText, Len(rule) + 1)
                         ELSE sheetCSSRuleMap,
                     err |-> ""]

\* a handleVNodeCssRules that adds the selector to the record of every scope
\* that has one, and to the record of the current scope
handleVNodeCssRulesShared(vnode, id, selectorText) ==
    [v \in DOMAIN vnodeCssRuleMap \cup {vnode} |->
        LET map == IF v \in DOMAIN vnodeCssRuleMap THEN vnodeCssRuleMap[v]
                   ELSE [i \in {} |-> {}]
            set == IF id \in DOMAIN map THEN map[id] ELSE {}
        IN [i \in DOMAIN map \cup {id} |->
              IF i = id THEN set \cup {selectorText} ELSE map[i]]]

\* handleVNodeCssRules(vnode, sheet, rule): the record of the vnode afterwards
handleVNodeCssRules(vnode, id, selectorText) ==
    LET map == IF vnode \in DOMAIN vnodeCssRuleMap THEN vnodeCssRuleMap[vnode]
               ELSE [i \in {} |-> {}]
        set == IF id \in DOMAIN map THEN map[id] ELSE {}
    IN [v \in DOMAIN vnodeCssRuleMap \cup {vnode} |->
          IF v = vnode THEN [i \in DOMAIN map \cup {id} |->
                               IF i = id THEN set \cup {selectorText} ELSE map[i]]
          ELSE vnodeCssRuleMap[v]]

\* an isStaticCssRule that takes the selector as given, white space included
IsStaticCssRuleNoTrim(selector, readonly, vnode) ==
    IF readonly = "undef" THEN selector # <<>> \/ vnode = NoVNode
    ELSE readonly = "true"

\* the isStaticCssRule of define
IsStaticCssRule(selector, readonly, vnode) ==
    IF readonly = "undef" THEN Trim(selector) # <<>> \/ vnode = NoVNode
    ELSE readonly = "true"

\* define(style, {selector, screen, prefix, readonly}), with vnode the result
\* of getCurrentVNode() and randomPart the letters the name generator draws
Define(style, selector, screen, prefix, readonly, vnode, randomPart) ==
    /\ vnode \in (VNodes \ ended) \cup {NoVNode}
    /\ \E isStaticCssRule \in {IsStaticCssRule(selector, readonly, vnode)} :
       \E got \in {getCssStyleSheet(screen, IF isStaticCssRule THEN "readonly" ELSE "dynamic")} :
       \E ps \in {parseSelector(selector, prefix, randomPart)} :
       \E res \in {insertRule(got.sheet, got.id, style, ps, isStaticCssRule, vnode)} :
       \E attach \in {res.err = "" /\ vnode # NoVNode /\ ~isStaticCssRule} :
          /\ Len(res.rule) <= MaxRules
          /\ ps.counter <= MaxRules
          /\ sheet' = res.sheet
          /\ screenSheet' = got.screenSheet
          /\ rule' = IF attach THEN [res.rule EXCEPT ![res.rid].owner = vnode] ELSE res.rule
          /\ subs' = res.subs
          /\ sheetCSSRuleMap' = res.sheetCSSRuleMap
          /\ counter' = ps.counter
          /\ vnodeCssRuleMap' =
               IF attach THEN handleVNodeCssRules(vnode, got.id, ps.selectorText)
               ELSE vnodeCssRuleMap
          /\ onDispose' = IF attach THEN [onDispose EXCEPT ![vnode] = @ + 1] ELSE onDispose
          /\ last' = [op |-> "define", err |-> res.err, rid |-> res.rid, hit |-> res.hit,
                      static |-> isStaticCssRule, id |-> got.id,
                      selectorText |-> ps.selectorText, style |-> style,
                      selector |-> selector, screen |-> screen, readonly |-> readonly,
                      vnode |-> vnode,
                      before |-> IF res.hit THEN rule[res.rid].style ELSE NoStyle,
                      retry |-> /\ last.op = "define"
                                /\ last.err = InsertError
                                /\ last.id = got.id
                                /\ last.selectorText = ps.selectorText]
          /\ UNCHANGED <<ended, snapshot, instance, legacy>>

\* deleteRule(sheet, selectors): the sheet's cssRules and the sheet's map
\* afterwards.  For each selector still wanted, the backward scan deletes the
\* matching style rule with the highest index.
RemoveAt(seq, i) == SubSeq(seq, 1, i - 1) \o SubSeq(seq, i + 1, Len(seq))

RECURSIVE ScanDelete(_, _, _)
ScanDelete(cssRules, i, selectorSet) ==
    IF i = 0 \/ selectorSet = {} THEN cssRules
    ELSE IF cssRules[i].rid # 0 /\ rule[cssRules[i].rid].selectorText \in selectorSet
         THEN ScanDelete(RemoveAt(cssRules, i), i - 1,
                         selectorSet \ {rule[cssRules[i].rid].selectorText})
         ELSE ScanDelete(cssRules, i - 1, selectorSet)

\* a deleteRule that asks for no map of the sheet and deletes every style rule
\* whose selector is among the selectors
RECURSIVE ScanDeleteAll(_, _, _)
ScanDeleteAll(cssRules, i, selectorSet) ==
    IF i = 0 THEN cssRules
    ELSE IF cssRules[i].rid # 0 /\ rule[cssRules[i].rid].selectorText \in selectorSet
         THEN ScanDeleteAll(RemoveAt(cssRules, i), i - 1, selectorSet)
         ELSE ScanDeleteAll(cssRules, i - 1, selectorSet)

deleteRuleEvery(sheets, maps, id, selectors) ==
    [sheet |-> [sheets EXCEPT
                  ![id] = ScanDeleteAll(sheets[id], Len(sheets[id]),
                                        {formatSelector(t) : t \in selectors})],
     sheetCSSRuleMap |-> maps]

deleteRule(sheets, maps, id, selectors) ==
    IF id \notin DOMAIN maps THEN [sheet |-> sheets, sheetCSSRuleMap |-> maps]
    ELSE LET sheetMap == maps[id]
             selectorSet == {formatSelector(t) : t \in selectors} \cap DOMAIN sheetMap
         IN [sheet |-> [sheets EXCEPT
                          ![id] = ScanDelete(sheets[id], Len(sheets[id]), selectorSet)],
             sheetCSSRuleMap |->
                 [maps EXCEPT ![id] = [t \in DOMAIN sheetMap \ selectorSet |-> sheetMap[t]]]]

\* the teardown callback of handleVNodeCssRules: vnodeRuleMap.forEach
RECURSIVE DeleteEach(_, _, _, _)
DeleteEach(sheets, maps, vnodeRuleMap, ids) ==
    IF ids = {} THEN [sheet |-> sheets, sheetCSSRuleMap |-> maps]
    ELSE LET id == CHOOSE i \in ids : TRUE
             d == deleteRule(sheets, maps, id, vnodeRuleMap[id])
         IN DeleteEach(d.sheet, d.sheetCSSRuleMap, vnodeRuleMap, ids \ {id})

Teardown(vnode) ==
    IF onDispose[vnode] > 0 /\ vnode \in DOMAIN vnodeCssRuleMap
    THEN DeleteEach(sheet, sheetCSSRuleMap, vnodeCssRuleMap[vnode],
                    DOMAIN vnodeCssRuleMap[vnode])
    ELSE [sheet |-> sheet, sheetCSSRuleMap |-> sheetCSSRuleMap]

\* Subscriber.dispose() of the subscriptions ids: each is detached, and its
\* onDispose callback deletes rule.listener
\* a disposal that detaches nothing
KeepAll(subscriptions, ids) == subscriptions

RECURSIVE Keep(_, _)
Keep(subscriptions, ids) ==
    IF subscriptions = <<>> THEN <<>>
    ELSE Keep(SubSeq(subscriptions, 1, Len(subscriptions) - 1), ids)
         \o (IF Len(subscriptions) \in ids THEN <<>>
             ELSE <<subscriptions[Len(subscriptions)]>>)

\* an onDispose callback that leaves rule.listener in place
ClearListenersNone(rules, ids) == rules

ClearListeners(rules, ids) ==
    [r \in DOMAIN rules |->
        IF \E i \in ids : subs[i].rule = r THEN [rules[r] EXCEPT !.listener = FALSE]
        ELSE rules[r]]

NoArgs == [err |-> "", rid |-> 0, hit |-> FALSE, static |-> FALSE, id |-> <<"", "">>,
           selectorText |-> <<>>, style |-> NullStyle, selector |-> <<>>, screen |-> "",
           readonly |-> "undef", vnode |-> NoVNode, before |-> NoStyle,
           retry |-> FALSE]

\* the scope of a vnode is disposed: the subscriptions created in it are
\* disposed and its teardown callbacks run
EndScope(vnode) ==
    /\ vnode \in VNodes \ ended
    /\ \E mine \in {{i \in DOMAIN subs : subs[i].vnode = vnode}} :
       \E torn \in {Teardown(vnode)} :
          /\ ended' = ended \cup {vnode}
          /\ subs' = Keep(subs, mine)
          /\ rule' = ClearListeners(rule, mine)
          /\ sheet' = torn.sheet
          /\ sheetCSSRuleMap' = torn.sheetCSSRuleMap
          /\ vnodeCssRuleMap' =
               IF onDispose[vnode] > 0
               THEN [v \in DOMAIN vnodeCssRuleMap \ {vnode} |-> vnodeCssRuleMap[v]]
               ELSE vnodeCssRuleMap
          /\ onDispose' = [onDispose EXCEPT ![vnode] = 0]
          /\ last' = [NoArgs EXCEPT !.vnode = vnode,
                                     !.rid = IF mine = {} THEN 0
                                             ELSE subs[CHOOSE i \in mine : TRUE].rule]
                      @@ [op |-> "endScope"]
          /\ UNCHANGED <<screenSheet, snapshot, counter, instance, legacy>>

\* rule.listener?.dispose() called by hand on the rule r: nothing happens
\* when the rule has no listener
Dispose(r) ==
    /\ r \in DOMAIN rule
    /\ \E mine \in {{i \in DOMAIN subs : rule[r].listener /\ subs[i].rule = r}} :
          /\ subs' = Keep(subs, mine)
          /\ rule' = ClearListeners(rule, mine)
    /\ last' = [NoArgs EXCEPT !.rid = r] @@ [op |-> "dispose"]
    /\ UNCHANGED <<sheet, screenSheet, sheetCSSRuleMap, vnodeCssRuleMap, onDispose,
                   ended, snapshot, counter, instance, legacy>>

\* the application assigns to a reactive source; its subscriptions are due a
\* notification
Change(src, m) ==
    /\ m # snapshot[src]
    /\ snapshot' = [snapshot EXCEPT ![src] = m]
    /\ subs' = [i \in DOMAIN subs |->
                  IF subs[i].style.src = src THEN [subs[i] EXCEPT !.pending = TRUE]
                  ELSE subs[i]]
    /\ last' = [NoArgs EXCEPT !.style.src = src] @@ [op |-> "change"]
    /\ UNCHANGED <<sheet, screenSheet, rule, sheetCSSRuleMap, vnodeCssRuleMap,
                   onDispose, ended, counter, instance, legacy>>

\* the callback of watch: () => CssInJs.replaceRuleStyle(rule, style)
Notify(i) ==
    /\ i \in DOMAIN subs
    /\ subs[i].pending
    /\ rule' = [rule EXCEPT ![subs[i].rule].style =
                  replaceRuleStyle(rule[subs[i].rule], subs[i].style)]
    /\ subs' = [subs EXCEPT ![i].pending = FALSE]
    /\ last' = [NoArgs EXCEPT !.rid = subs[i].rule, !.style = subs[i].style,
                               !.before = rule[subs[i].rule].style]
               @@ [op |-> "notify"]
    /\ UNCHANGED <<sheet, screenSheet, sheetCSSRuleMap, vnodeCssRuleMap, onDispose,
                   ended, snapshot, counter, instance, legacy>>

\* static #instance = null, and no engine constructed
\* sheets: the stylesheets createStyleSheet has put in the document;
\* failed: a construction has thrown
NoInstance == [id |-> 0, made |-> 0, options |-> DefaultOptions, sheets |-> 0,
               failed |-> FALSE]

\* the engine of src/src/css-in-js.ts as constructed: empty sheets, no
\* shell, no selector in onlyCssSelector, no hook on a widget
LegacyInit ==
    [sheet |-> [b \in {"static", "dynamic"} \cup mediaScreenRule |-> <<>>],
     screen |-> {}, onlyCssSelector |-> {}, hooks |-> [w \in VNodes |-> <<>>],
     unmounted |-> {}, calls |-> 0]

\* the state after new CssInJs(): two empty top-level sheets
Init ==
    /\ sheet = [id \in SheetIds |-> <<>>]
    /\ screenSheet = {}
    /\ rule = <<>>
    /\ sheetCSSRuleMap = [id \in {} |-> [t \in {} |-> 0]]
    /\ vnodeCssRuleMap = [v \in {} |-> [id \in {} |-> {}]]
    /\ onDispose = [v \in VNodes |-> 0]
    /\ ended = {}
    /\ subs = <<>>
    /\ snapshot = [src \in Sources |-> MapRed]
    /\ counter = 0
    /\ instance = NoInstance
    /\ legacy = LegacyInit
    /\ last = NoArgs @@ [op |-> "init"]

\* new CssInJs(options) where window.document exists: the next engine,
\* configured with the defaults merged with the options when options are
\* passed, and its two top-level stylesheets created in the document
Construct(inst, options) ==
    [id |-> inst.made + 1, made |-> inst.made + 1,
     options |-> IF options = <<>> THEN DefaultOptions
                 ELSE deepMergeObject(DefaultOptions, options[1]),
     sheets |-> inst.sheets + 2, failed |-> inst.failed]

\* a constructor that checks the document after the first stylesheet, with
\* the engine already published
constructorPartial(inst, options, document) ==
    IF document THEN [err |-> FALSE, inst |-> Construct(inst, options)]
    ELSE [err |-> TRUE,
          inst |-> [Construct(inst, options) EXCEPT !.sheets = inst.sheets + 1,
                                                    !.failed = TRUE]]

\* #instance = new CssInJs(options): the constructor throws first when
\* window.document is missing, and then nothing is created or assigned
constructor(inst, options, document) ==
    IF document THEN [err |-> FALSE, inst |-> Construct(inst, options)]
    ELSE [err |-> TRUE, inst |-> [inst EXCEPT !.failed = TRUE]]

\* a create that constructs again whenever options are passed
createAgain(inst, options) ==
    IF inst.id = 0 \/ options # <<>> THEN Construct(inst, options) ELSE inst

\* static create(options): #instance after the call
create(inst, options) ==
    IF inst.id = 0 THEN Construct(inst, options) ELSE inst

\* static get instance(): #instance after the read
instanceGet(inst) ==
    IF inst.id = 0 THEN Construct(inst, <<>>) ELSE inst

\* CssInJs.create(options); document: whether window.document exists, without
\* which the constructor throws and #instance stays null
Create(options, document) ==
    /\ \E made \in {create(instance, options)},
          thrown \in {constructor(instance, options, document)} :
          IF instance.id = 0 /\ thrown.err
          THEN /\ instance' = thrown.inst
               /\ last' = [op |-> "create", options |-> options, err |-> TRUE,
                           returned |-> 0, config |-> DefaultOptions,
                           document |-> document]
          ELSE /\ instance' = made
               /\ last' = [op |-> "create", options |-> options, err |-> FALSE,
                           returned |-> made.id, config |-> made.options,
                           document |-> document]
    /\ UNCHANGED <<sheet, screenSheet, rule, sheetCSSRuleMap, vnodeCssRuleMap,
                   onDispose, ended, subs, snapshot, counter, legacy>>

\* a read of CssInJs.instance
Instance(document) ==
    /\ \E made \in {instanceGet(instance)},
          thrown \in {constructor(instance, <<>>, document)} :
          IF instance.id = 0 /\ thrown.err
          THEN /\ instance' = thrown.inst
               /\ last' = [op |-> "instance", options |-> <<>>, err |-> TRUE,
                           returned |-> 0, config |-> DefaultOptions,
                           document |-> document]
          ELSE /\ instance' = made
               /\ last' = [op |-> "instance", options |-> <<>>, err |-> FALSE,
                           returned |-> made.id, config |-> made.options,
                           document |-> document]
    /\ UNCHANGED <<sheet, screenSheet, rule, sheetCSSRuleMap, vnodeCssRuleMap,
                   onDispose, ended, subs, snapshot, counter, legacy>>

\* CssInJs.makeClassName(prefix): the name is returned and the counter of the
\* generator advances; names: the names returned so far, with their prefixes
MakeClassName(prefix, randomPart) ==
    /\ last.op \in {"call", "makeClassName", "generated"}
    /\ Cardinality(last.names) < MaxNames
    /\ \E name \in {makeClassName(prefix, randomPart)} :
          last' = [op |-> "makeClassName", prefix |-> prefix, name |-> name,
                   names |-> last.names \cup {<<prefix, name>>}]
    /\ counter' = counter + 1
    /\ UNCHANGED <<sheet, screenSheet, rule, sheetCSSRuleMap, vnodeCssRuleMap,
                   onDispose, ended, subs, snapshot, instance, legacy>>

\* the generator is called n times for names that are not followed (the
\* generated selectors of define)
Generated(n) ==
    /\ last.op \in {"call", "makeClassName", "generated"}
    /\ counter + n <= MaxNames * Len(Chars)
    /\ counter' = counter + n
    /\ last' = [last EXCEPT !.op = "generated"]
    /\ UNCHANGED <<sheet, screenSheet, rule, sheetCSSRuleMap, vnodeCssRuleMap,
                   onDispose, ended, subs, snapshot, instance, legacy>>

\* ------------------------------------- the engine of src/src/css-in-js.ts
\* Its buckets are the static sheet, the dynamic sheet and one shell per
\* breakpoint, which is a rule of the static sheet.  A style rule records its
\* selector text, the entries its text was computed from, and the define call
\* (by) that made it; a hook is the closure define leaves in
\* widget.onUnmounted, the one of the latest define outermost.
LegacyRule(selectorText, m, by, only) ==
    [kind |-> "style", selectorText |-> selectorText, m |-> m, by |-> by, only |-> only]

\* parseSelector of that engine, with the prefix ''
LegacyParseSelector(selector, randomPart) ==
    LET sel == Trim(selector)
        baseSelector == Trim(SplitHead(SplitHead(sel, ":"), "["))
    IN IF sel = <<>>
       THEN [name |-> makeClassName(<<>>, randomPart),
             selectorText |-> <<".">> \o makeClassName(<<>>, randomPart),
             counter |-> counter + 1]
       ELSE IF ~StartsWith(baseSelector, ".") /\ ~StartsWith(baseSelector, "#")
               /\ ~StartsWith(baseSelector, "@")
       THEN [name |-> baseSelector, selectorText |-> <<".">> \o sel, counter |-> counter]
       ELSE [name |-> Tail(baseSelector), selectorText |-> sel, counter |-> counter]

\* getCssStyleSheet(screen, type): the bucket, and the sheets after the shell
\* of the breakpoint was inserted into the static sheet on its first use
LegacyGetCssStyleSheet(l, screen, type) ==
    IF screen \in mediaScreenRule
    THEN IF screen \notin l.screen
         THEN [bucket |-> screen,
               l |-> [l EXCEPT !.screen = @ \cup {screen},
                               !.sheet["static"] =
                                   Append(@, [LegacyRule(<<>>, <<>>, 0, FALSE)
                                                 EXCEPT !.kind = screen])]]
         ELSE [bucket |-> screen, l |-> l]
    ELSE [bucket |-> type, l |-> l]

\* a deleteRule that scans forward and deletes the first match
LegacyDeleteRuleFirst(cssRules, selectorText) ==
    LET sel == IF StartsWith(Trim(selectorText), ".") THEN Trim(selectorText)
               ELSE <<".">> \o Trim(selectorText)
        found == {i \in DOMAIN cssRules :
                     cssRules[i].kind = "style" /\ cssRules[i].selectorText = sel}
    IN IF found = {} THEN cssRules
       ELSE RemoveAt(cssRules, CHOOSE i \in found : \A j \in found : i <= j)

\* deleteRule(sheet, selectorText): the selector is trimmed and given a '.'
\* when it does not start with one; the matching style rule with the highest
\* index is deleted
LegacyDeleteRule(cssRules, selectorText) ==
    LET sel == IF StartsWith(Trim(selectorText), ".") THEN Trim(selectorText)
               ELSE <<".">> \o Trim(selectorText)
        found == {i \in DOMAIN cssRules :
                     cssRules[i].kind = "style" /\ cssRules[i].selectorText = sel}
    IN IF found = {} THEN cssRules
       ELSE RemoveAt(cssRules, CHOOSE i \in found : \A j \in found : j <= i)

\* the rules of all buckets, shells included
LegacyRuleCount(l) ==
    Cardinality(UNION {{<<b, i>> : i \in DOMAIN l.sheet[b]} : b \in DOMAIN l.sheet})

\* define(style, {selector, screen, only}), with widget the result of
\* getCurrentVNode()?.instance
LegacyDefine(style, selector, screen, only, widget, randomPart) ==
    /\ widget \in (VNodes \ legacy.unmounted) \cup {NoVNode}
    /\ \E ps \in {LegacyParseSelector(selector, randomPart)} :
       \E got \in {LegacyGetCssStyleSheet(legacy, screen,
                                          IF widget # NoVNode THEN "dynamic" ELSE "static")} :
       \E by \in {legacy.calls + 1} :
       \E known \in {only /\ ps.selectorText \in legacy.onlyCssSelector} :
          /\ LegacyRuleCount(got.l) < MaxRules
          /\ by <= MaxRules
          /\ ps.counter <= MaxRules
          /\ counter' = ps.counter
          /\ legacy' =
               IF known THEN legacy
               ELSE [got.l EXCEPT
                       !.calls = by,
                       !.sheet[got.bucket] =
                           Append(@, LegacyRule(ps.selectorText, Entries(style), by, only)),
                       !.onlyCssSelector = IF only THEN @ \cup {ps.selectorText} ELSE @,
                       !.hooks = IF widget = NoVNode THEN @
                                 ELSE [@ EXCEPT ![widget] =
                                         Append(@, [listener |-> isProxy(style),
                                                    pending |-> FALSE, style |-> style,
                                                    only |-> only, bucket |-> got.bucket,
                                                    selectorText |-> ps.selectorText,
                                                    by |-> by])]]
          /\ last' = [op |-> "define", selectorText |-> ps.selectorText, only |-> only,
                      widget |-> widget, bucket |-> got.bucket, known |-> known,
                      by |-> IF known THEN 0 ELSE by]
    /\ UNCHANGED <<sheet, screenSheet, rule, sheetCSSRuleMap, vnodeCssRuleMap,
                   onDispose, ended, subs, snapshot, instance>>

\* the application assigns to a reactive source: the listeners that watch it
\* are due a call
LegacyChange(src, m) ==
    /\ m # snapshot[src]
    /\ snapshot' = [snapshot EXCEPT ![src] = m]
    /\ legacy' = [legacy EXCEPT !.hooks =
                    [w \in VNodes |->
                       [i \in DOMAIN legacy.hooks[w] |->
                          IF legacy.hooks[w][i].listener /\ legacy.hooks[w][i].style.src = src
                          THEN [legacy.hooks[w][i] EXCEPT !.pending = TRUE]
                          ELSE legacy.hooks[w][i]]]]
    /\ last' = [op |-> "change", src |-> src]
    /\ UNCHANGED <<sheet, screenSheet, rule, sheetCSSRuleMap, vnodeCssRuleMap,
                   onDispose, ended, subs, counter, instance>>

\* the callback of watch: the rule text is computed again and
\* insertCssRule(sheet, cssRule, true) deletes by selector and inserts at the end
LegacyNotify(widget, i) ==
    /\ i \in DOMAIN legacy.hooks[widget]
    /\ legacy.hooks[widget][i].listener
    /\ legacy.hooks[widget][i].pending
    /\ \E h \in {legacy.hooks[widget][i]} :
       \E deleted \in {LegacyDeleteRule(legacy.sheet[h.bucket], h.selectorText)} :
          /\ LegacyRuleCount(legacy) - Len(legacy.sheet[h.bucket]) + Len(deleted) < MaxRules
          /\ legacy' = [legacy EXCEPT
                          !.sheet[h.bucket] =
                              Append(deleted, LegacyRule(h.selectorText, Entries(h.style),
                                                         h.by, h.only)),
                          !.hooks[widget][i].pending = FALSE]
          /\ last' = [op |-> "notify", selectorText |-> h.selectorText, only |-> h.only,
                      widget |-> widget, bucket |-> h.bucket, by |-> h.by]
    /\ UNCHANGED <<sheet, screenSheet, rule, sheetCSSRuleMap, vnodeCssRuleMap,
                   onDispose, ended, subs, snapshot, counter, instance>>

\* the hooks of a widget run, the one of the first define first: the listener
\* is destroyed, then the rule is deleted unless it was defined with only
RECURSIVE LegacyRunHooks(_, _)
LegacyRunHooks(sheets, hooks) ==
    IF hooks = <<>> THEN sheets
    ELSE LegacyRunHooks(
            IF Head(hooks).only THEN sheets
            ELSE [sheets EXCEPT ![Head(hooks).bucket] =
                     LegacyDeleteRule(@, Head(hooks).selectorText)],
            Tail(hooks))

\* widget.onUnmounted after the hooks have run: each wrapper ends with
\* widget['onUnmounted'] = onUnmounted, the hook it had found, and the wrapper
\* of the last define is the last to do so; the listeners are destroyed
LegacyHookAfter(hooks) ==
    [i \in 1..(Len(hooks) - 1) |-> [hooks[i] EXCEPT !.listener = FALSE, !.pending = FALSE]]

\* the widget unmounts: widget.onUnmounted() is called
LegacyUnmount(widget) ==
    /\ widget \in VNodes \ legacy.unmounted
    /\ legacy' = [legacy EXCEPT
                    !.sheet = LegacyRunHooks(@, legacy.hooks[widget]),
                    !.hooks[widget] = LegacyHookAfter(legacy.hooks[widget]),
                    !.unmounted = @ \cup {widget}]
    /\ last' = [op |-> "unmount", widget |-> widget, hooks |-> legacy.hooks[widget]]
    /\ UNCHANGED <<sheet, screenSheet, rule, sheetCSSRuleMap, vnodeCssRuleMap,
                   onDispose, ended, subs, snapshot, counter, instance>>

\* removeStaticCssRule(selectorText)
removeStaticCssRule(selectorText) ==
    /\ legacy' = [legacy EXCEPT
                    !.onlyCssSelector = @ \ {selectorText},
                    !.sheet["static"] = LegacyDeleteRule(@, selectorText)]
    /\ last' = [op |-> "removeStaticCssRule", selectorText |-> selectorText]
    /\ UNCHANGED <<sheet, screenSheet, rule, sheetCSSRuleMap, vnodeCssRuleMap,
                   onDispose, ended, subs, snapshot, counter, instance>>

\* ------------------------------------------------------- the specifications
\* Each specification drives the engine with the calls of one scenario; the
\* arguments of define are drawn from the sets given.
RandomParts == {<<"a", "a">>}
PrefixInputs == {<<>>}

Defines(styles, selectors, screens, readonlys, vnodes) ==
    \E style \in styles, selector \in selectors, screen \in screens,
       readonly \in readonlys, vnode \in vnodes,
       prefix \in PrefixInputs, randomPart \in RandomParts :
          Define(style, selector, screen, prefix, readonly, vnode, randomPart)

\* the engine as constructed, with the name generator after any number of
\* names, and the arguments of a call that is about to be made
InitCall(calls, counters) ==
    /\ sheet = [id \in SheetIds |-> <<>>]
    /\ screenSheet = {}
    /\ rule = <<>>
    /\ sheetCSSRuleMap = [id \in {} |-> [t \in {} |-> 0]]
    /\ vnodeCssRuleMap = [v \in {} |-> [id \in {} |-> {}]]
    /\ onDispose = [v \in VNodes |-> 0]
    /\ ended = {}
    /\ subs = <<>>
    /\ snapshot = [src \in Sources |-> MapRed]
    /\ counter \in counters
    /\ instance = NoInstance
    /\ legacy = LegacyInit
    /\ last \in calls

\* the selector resolver on its own: parseSelector(selector, prefix)
Resolve(randomPart) ==
    /\ last.op = "call"
    /\ \E ps \in {parseSelector(last.selector, last.prefix, randomPart)} :
          /\ counter' = ps.counter
          /\ last' = [op |-> "parseSelector", selector |-> last.selector,
                      prefix |-> last.prefix, err |-> ps.err, name |-> ps.name,
                      selectorText |-> ps.selectorText]
    /\ UNCHANGED <<sheet, screenSheet, rule, sheetCSSRuleMap, vnodeCssRuleMap,
                   onDispose, ended, subs, snapshot, instance, legacy>>

SelectorChars == {" ", ".", "#", "a", ":", "[", "@"}
SelectorInputs == UNION {[1..n -> SelectorChars] : n \in 0..MaxSelectorLen}

InitResolve ==
    InitCall([op : {"call"}, selector : SelectorInputs, prefix : {<<>>, <<"p", "-">>}],
             0..MaxRules)

NextResolve ==
    \/ \E randomPart \in RandomParts : Resolve(randomPart)

SpecResolve == InitResolve /\ [][NextResolve]_vars

\* cssStyleMapToCssRuleText(style, selectorText) on its own, with the text
\* `${selectorText}{${rule}}` it returns
Serialize(selectorText) ==
    /\ last.op = "call"
    /\ \E text \in {cssStyleMapToCssRuleText(last.style, selectorText)} :
          last' = [op |-> "cssStyleMapToCssRuleText", style |-> last.style,
                   err |-> text.err, block |-> DeclarationText(text.decls),
                   text |-> text.selectorText \o <<"{">> \o DeclarationText(text.decls)
                            \o <<"}">>]
    /\ UNCHANGED <<sheet, screenSheet, rule, sheetCSSRuleMap, vnodeCssRuleMap,
                   onDispose, ended, subs, snapshot, counter, instance, legacy>>

\* the keys color, fontSize and aBcD, and values of every kind
KeyInputs == {Color, FontSize, <<"a", "B", "c", "D">>}
ValueInputs ==
    {StrVal(<<>>), StrVal(<<" ">>), NullVal, OtherVal, StrVal(<<"!important">>),
     StrVal(<<" ", "!important", " ">>), NumVal(0), StrVal(<<" ", "red">>),
     StrVal(<<"red", " ", "!important">>), StrVal(<<"'", ";", "'">>)}

\* the maps of at most MaxEntries entries, each key once
MapInputs ==
    {m \in UNION {[1..n -> KeyInputs \X ValueInputs] : n \in 0..MaxEntries} :
        \A i, j \in DOMAIN m : m[i][1] = m[j][1] => i = j}

InitSerialize == InitCall([op : {"call"}, style : {PlainStyle(m) : m \in MapInputs}], {0})

NextSerialize ==
    \/ \E selectorText \in {<<".", "a">>} : Serialize(selectorText)

SpecSerialize == InitSerialize /\ [][NextSerialize]_vars

\* the two ways a rule gets its declarations, on their own: the rule text of
\* cssStyleMapToCssRuleText handed to CSSStyleSheet.insertRule, and
\* replaceRuleStyle on a rule that has declarations already
Agree(selectorText) ==
    /\ last.op = "call"
    /\ \E text \in {cssStyleMapToCssRuleText(last.style, selectorText)} :
       \E prior \in {[selectorText |-> selectorText, style |-> last.prior]} :
          last' = [op |-> "agree", style |-> last.style, prior |-> last.prior,
                   inserted |-> ParseDeclarations(text.decls),
                   patched |-> replaceRuleStyle(prior, last.style)]
    /\ UNCHANGED <<sheet, screenSheet, rule, sheetCSSRuleMap, vnodeCssRuleMap,
                   onDispose, ended, subs, snapshot, counter, instance, legacy>>

\* the keys color, fontSize and font-size, with plain, important, numeric
\* and null values; a map may hold fontSize and font-size side by side
AgreeKeys == {Color, FontSize, <<"f", "-", "s">>}
AgreeValues ==
    {StrVal(<<"red">>), StrVal(<<"blue", " ", "!important">>), NumVal(1), NullVal}
AgreeMaps ==
    {m \in UNION {[1..n -> AgreeKeys \X AgreeValues] : n \in 0..MaxEntries} :
        \A i, j \in DOMAIN m : m[i][1] = m[j][1] => i = j}
\* the declarations a rule may have before the patch
PriorStyles == {NoStyle, ParseDeclarations(RuleDeclarations(MapRed)),
                ParseDeclarations(RuleDeclarations(MapBlue))}

InitAgree ==
    InitCall([op : {"call"}, style : {PlainStyle(m) : m \in AgreeMaps}, prior : PriorStyles],
             {0})

NextAgree ==
    \/ \E selectorText \in {<<".", "a">>} : Agree(selectorText)

SpecAgree == InitAgree /\ [][NextAgree]_vars

\* define on its own, with every selector: define(style, {selector})
DefineCall(randomPart) ==
    /\ last.op = "call"
    /\ Define(PlainStyle(MapRed), last.selector, "", <<>>, "undef", NoVNode, randomPart)

InitAccept == InitCall([op : {"call"}, selector : SelectorInputs], {0})

NextAccept ==
    \/ \E randomPart \in RandomParts : DefineCall(randomPart)

SpecAccept == InitAccept /\ [][NextAccept]_vars

\* the static entry points on their own: create with and without options,
\* and reads of instance, with and without a document
OptionPrefixes == {<<>>, <<<<>>>>, <<<<"p", "-">>>>, <<<<"q", "-">>>>}
OptionScreens == {<<>>, <<"@media (max-width: 320px)">>, <<"@media print">>}
OptionInputs ==
    {<<>>} \cup {<<[prefix |-> p, xs |-> x]>> : p \in OptionPrefixes, x \in OptionScreens}

NextSingleton ==
    \/ \E options \in OptionInputs, document \in BOOLEAN : Create(options, document)
    \/ \E document \in BOOLEAN : Instance(document)

SpecSingleton == Init /\ [][NextSingleton]_vars

\* the name generator on its own: names with and without a prefix, with
\* different random parts, and runs of names in between
NameRandomParts == {<<"a", "a">>, <<"a", "b">>}
NamePrefixes == {<<>>, <<"a">>}

InitNames ==
    InitCall({[op |-> "call", prefix |-> <<>>, name |-> <<>>, names |-> {}]}, {0})

NextNames ==
    \/ \E prefix \in NamePrefixes, randomPart \in NameRandomParts :
          MakeClassName(prefix, randomPart)
    \/ \E n \in {Len(Chars) - 1} : Generated(n)

SpecNames == InitNames /\ [][NextNames]_vars

\* String(props.forCss): the text 'undefined' for a prop that is absent
StringOf(forCss) ==
    IF forCss = <<>> THEN <<"u", "n", "d", "e", "f", "i", "n", "e", "d">> ELSE forCss[1]

\* new StyledWidget(props) of src/src/widget.ts with no css and no cssIn:
\* this.className = String(props.forCss) || CssInJs.factory().className();
\* forCss is absent (<<>>) or present (<<value>>)
StyledWidget(forCss, randomPart) ==
    /\ last.op \in {"call", "StyledWidget"}
    /\ Len(last.instances) < MaxNames
    /\ \E generate \in {StringOf(forCss) = <<>>} :
       \E className \in {IF generate THEN makeClassName(OptionsPrefix, randomPart)
                          ELSE StringOf(forCss)} :
          /\ counter' = IF generate THEN counter + 1 ELSE counter
          /\ last' = [op |-> "StyledWidget", forCss |-> forCss, className |-> className,
                      instances |-> Append(last.instances,
                                           [forCss |-> forCss, className |-> className])]
    /\ UNCHANGED <<sheet, screenSheet, rule, sheetCSSRuleMap, vnodeCssRuleMap,
                   onDispose, ended, subs, snapshot, instance, legacy>>

\* the forCss prop: absent, the empty string, and two names
ForCssInputs == {<<>>, <<<<>>>>, <<<<"x">>>>, <<<<"y">>>>}

InitStyled ==
    InitCall({[op |-> "call", forCss |-> <<>>, className |-> <<>>, instances |-> <<>>]},
             {0})

NextStyled ==
    \/ \E forCss \in ForCssInputs, randomPart \in NameRandomParts :
          StyledWidget(forCss, randomPart)

SpecStyled == InitStyled /\ [][NextStyled]_vars

\* rule texts that the backend rejects, by their selector or by their
\* declarations, and the same selectors defined again
NextReject ==
    \/ Defines({PlainStyle(MapRed), PlainStyle(MapBrace), ProxyStyle("p1")},
               {<<".", "a">>, <<".", "a", ":">>}, {""}, {"undef", "false"},
               {"v1"})
    \/ \E m \in {MapRed, MapBrace} : Change("p1", m)

SpecReject == Init /\ [][NextReject]_vars

\* cached and scoped rules side by side: a component defines persistent and
\* generated rules with and without a breakpoint, from a map and from a
\* proxy; the proxy changes, and the scope ends
NextEntries ==
    \/ Defines({PlainStyle(MapRed), ProxyStyle("p1")}, {<<>>, <<".", "a">>}, {"", "xs"},
               {"undef"}, {"v1"})
    \/ \E m \in {MapBlue} : Change("p1", m)
    \/ \E i \in DOMAIN subs : Notify(i)
    \/ \E vnode \in {"v1"} : EndScope(vnode)

SpecEntries == Init /\ [][NextEntries]_vars

\* the engine of src/src/css-in-js.ts: rules defined with and without only,
\* in a component and outside, and removeStaticCssRule
NextOnly ==
    \/ \E selector \in {<<".", "a">>}, screen \in {"", "xs"}, only \in BOOLEAN,
          widget \in {"v1", NoVNode}, randomPart \in RandomParts :
          LegacyDefine(PlainStyle(MapRed), selector, screen, only, widget, randomPart)
    \/ LegacyUnmount("v1")
    \/ \E selectorText \in {<<".", "a">>} : removeStaticCssRule(selectorText)

SpecOnly == Init /\ [][NextOnly]_vars

\* the engine of src/src/css-in-js.ts: rules defined outside a component,
\* some with the same selector and some at a breakpoint, and removal requests
NextRemove ==
    \/ \E selector \in {<<".", "a">>, <<".", "b">>}, screen \in {"", "xs"},
          only \in BOOLEAN, randomPart \in RandomParts :
          LegacyDefine(PlainStyle(MapRed), selector, screen, only, NoVNode, randomPart)
    \/ \E selectorText \in {<<".", "a">>, <<" ", "b">>, <<".", "c">>} :
          removeStaticCssRule(selectorText)

SpecRemove == Init /\ [][NextRemove]_vars

\* the engine of src/src/css-in-js.ts: a component defines rules with
\* generated, class and id selectors, some from a reactive source, and unmounts
NextUnmount ==
    \/ \E style \in {PlainStyle(MapRed), ProxyStyle("p1")},
          selector \in {<<>>, <<".", "a">>, <<"#", "a">>}, only \in BOOLEAN,
          randomPart \in RandomParts :
          LegacyDefine(style, selector, "", only, "v1", randomPart)
    \/ \E m \in {MapRed, MapBlue} : LegacyChange("p1", m)
    \/ \E i \in 1..MaxRules : LegacyNotify("v1", i)
    \/ LegacyUnmount("v1")

SpecUnmount == Init /\ [][NextUnmount]_vars

\* components that define generated and custom rules, and end
Next ==
    \/ Defines({PlainStyle(MapRed)}, {<<>>, <<".", "a">>}, {""}, {"undef", "false"},
               VNodes \cup {NoVNode})
    \/ \E vnode \in VNodes : EndScope(vnode)

Spec == Init /\ [][Next]_vars

\* repeated definitions of custom selectors in the persistent sheets
NextCache ==
    \/ Defines({PlainStyle(MapRed), PlainStyle(MapBlue), ProxyStyle("p1")},
               {<<".", "a">>, <<" ", "a">>, <<"#", "b">>}, {"", "xs"}, {"undef"}, {NoVNode})

SpecCache == Init /\ [][NextCache]_vars

\* one selector defined again and again, with maps and with a proxy
NextHit ==
    \/ Defines({PlainStyle(MapRed), PlainStyle(MapBlue), ProxyStyle("p1")},
               {<<".", "a">>, <<" ", "a">>}, {"", "xs"}, {"undef"}, {NoVNode})

SpecHit == Init /\ [][NextHit]_vars

\* one cached rule and two reactive proxies, defined inside and outside a
\* scope; the sources change, listeners are disposed by hand, the scope ends
NextListener ==
    \/ Defines({PlainStyle(MapBlue), ProxyStyle("p1"), ProxyStyle("p2")},
               {<<".", "a">>}, {""}, {"undef"}, {"v1", NoVNode})
    \/ \E src \in {"p1", "p2"}, m \in StyleMaps : Change(src, m)
    \/ \E i \in DOMAIN subs : Notify(i)
    \/ \E r \in DOMAIN rule : Dispose(r)
    \/ \E vnode \in {"v1"} : EndScope(vnode)

SpecListener == Init /\ [][NextListener]_vars

\* reactive styles: the sources change and the subscriptions are notified
NextReactive ==
    \/ Defines({PlainStyle(MapBlue), ProxyStyle("p1"), RefStyle("r1")},
               {<<".", "a">>, <<"#", "b">>}, {""}, {"undef"}, {NoVNode})
    \/ \E src \in {"p1", "r1"}, m \in StyleMaps : Change(src, m)
    \/ \E i \in DOMAIN subs : Notify(i)

SpecReactive == Init /\ [][NextReactive]_vars

\* calls with a style that is no record object, or with an at-rule selector
NextInvalid ==
    \/ Defines({PlainStyle(MapRed), NullStyle, StringStyle(<<"n", "o">>)},
               {<<".", "a">>, <<" ", "@", "m">>}, {"", "xs"}, {"undef", "false"},
               {NoVNode})

SpecInvalid == Init /\ [][NextInvalid]_vars

\* breakpoints
NextScreen ==
    \/ Defines({PlainStyle(MapRed)}, {<<>>, <<".", "a">>}, {"", "xs", "sm", "zz"},
               {"true", "false"}, {NoVNode})

SpecScreen == Init /\ [][NextScreen]_vars

\* the default of readonly
NextDefault ==
    \/ Defines({PlainStyle(MapRed)}, {<<>>, <<" ">>, <<".", "a">>}, {"", "xs"},
               {"undef", "true", "false"}, {"v1", NoVNode})
    \/ \E vnode \in {"v1"} : EndScope(vnode)

SpecDefault == Init /\ [][NextDefault]_vars

\* ---------------------------------------------------------------- the claims
\* the style rules of a sheet, and the sheets a rule handle occurs in
RuleCount(cssRules) == Cardinality({i \in DOMAIN cssRules : cssRules[i].rid # 0})
Holds(cssRules, rid) == \E i \in DOMAIN cssRules : cssRules[i].rid = rid
DefineStep == last'.op = "define"

\* C1: two successful calls of define with persistence in effect that resolve
\* to the same selector in the same bucket return the same rule handle, and
\* the bucket gains exactly one rule over the two calls: the call that finds
\* no cache entry inserts one rule and caches its handle, no step changes or
\* drops a cache entry, and the call that finds the entry returns the cached
\* handle and leaves the rule count of the bucket as it is.
C1_DedupSameHandle ==
    [][/\ \A id \in DOMAIN sheetCSSRuleMap : \A t \in DOMAIN sheetCSSRuleMap[id] :
             /\ id \in DOMAIN sheetCSSRuleMap'
             /\ t \in DOMAIN sheetCSSRuleMap'[id]
             /\ sheetCSSRuleMap'[id][t] = sheetCSSRuleMap[id][t]
       /\ (DefineStep /\ last'.static /\ last'.err = "") =>
             IF /\ last'.id \in DOMAIN sheetCSSRuleMap
                /\ last'.selectorText \in DOMAIN sheetCSSRuleMap[last'.id]
             THEN /\ last'.rid = sheetCSSRuleMap[last'.id][last'.selectorText]
                  /\ RuleCount(sheet'[last'.id]) = RuleCount(sheet[last'.id])
             ELSE /\ RuleCount(sheet'[last'.id]) = RuleCount(sheet[last'.id]) + 1
                  /\ Holds(sheet'[last'.id], last'.rid)
                  /\ last'.id \in DOMAIN sheetCSSRuleMap'
                  /\ last'.selectorText \in DOMAIN sheetCSSRuleMap'[last'.id]
                  /\ sheetCSSRuleMap'[last'.id][last'.selectorText] = last'.rid
      ]_vars

\* a second persistent define of a selector has returned the cached handle,
\* with two raw selectors that resolve to the same text
C1_Witness ==
    /\ last.op = "define" /\ last.static /\ last.hit /\ last.err = ""
    /\ last.selector = <<" ", "a">>
    /\ last.rid = 1
    /\ RuleCount(sheet[last.id]) = 1

\* C2: when a scope has ended, no rule that was defined non-persistently while
\* that scope was current (and so recorded for it) is present in a bucket.
C2_ScopeEndRemovesRules ==
    \A id \in SheetIds : \A i \in DOMAIN sheet[id] :
        sheet[id][i].rid # 0 => rule[sheet[id][i].rid].owner \notin ended

\* the rules of a sheet that the scope of vnode does not own, in order
Others(cssRules, vnode) ==
    LET NotOwned(e) == e.rid = 0 \/ rule[e.rid].owner # vnode
    IN SelectSeq(cssRules, NotOwned)

\* C3: the end of a scope leaves every rule that was not recorded for it
\* (persistent rules, rules of other scopes, rules defined outside a scope)
\* in its bucket, in the same relative order and with the same declarations.
C3_ScopeEndFrame ==
    [][last'.op = "endScope" =>
          /\ \A id \in SheetIds :
                Others(sheet'[id], last'.vnode) = Others(sheet[id], last'.vnode)
          /\ \A r \in DOMAIN rule :
                rule[r].owner # last'.vnode =>
                   /\ r \in DOMAIN rule'
                   /\ rule'[r].style = rule[r].style
                   /\ rule'[r].selectorText = rule[r].selectorText
      ]_vars

\* a scope that owns a rule has ended while a rule of the other scope, with
\* the same selector, is held by the same sheet
C3_Witness ==
    /\ last.op = "endScope"
    /\ \E r, q \in DOMAIN rule :
          /\ rule[r].owner = last.vnode
          /\ rule[q].owner \in VNodes \ ended
          /\ rule[q].selectorText = rule[r].selectorText
          /\ Holds(sheet[Dynamic], q)

\* the engine state a failed define is said to leave alone
EngineUnchanged ==
    UNCHANGED <<sheet, screenSheet, rule, sheetCSSRuleMap, subs, vnodeCssRuleMap,
                onDispose>>

\* C4: define called with a style that is not a mapping (null or a string)
\* fails with an error and leaves the sheets, the at-rule shells, every rule's
\* declarations, the cache, the subscriptions and the scope records as they
\* were, whatever the selector and the breakpoint.
C4_InvalidStyleNoEffect ==
    [][(DefineStep /\ last'.style.kind \in {"null", "string"}) =>
          (last'.err # "" /\ EngineUnchanged)
      ]_vars

\* the first character of the text that is not white space is '@'
RECURSIVE AtSelector(_)
AtSelector(selector) ==
    /\ selector # <<>>
    /\ IF Head(selector) = " " THEN AtSelector(Tail(selector))
       ELSE Head(selector) = "@"

\* C5: define called with a selector whose trimmed text starts with '@' fails
\* with an error and creates no rule, no at-rule shell, no cache entry, no
\* subscription and no scope record, whatever the breakpoint and persistence.
C5_AtSelectorNoEffect ==
    [][(DefineStep /\ AtSelector(last'.selector)) =>
          (last'.err # "" /\ EngineUnchanged)
      ]_vars

\* the entries of a style map that are valid: the value is a number or a
\* string with a value in it, and the key names a property
ValidEntries(entries) ==
    {i \in DOMAIN entries :
        /\ formatStyleValue(entries[i][2]) # Invalid
        /\ IsCssProperty(formatStyleKey(entries[i][1]))}

\* a step of replaceRuleStyle led to this state
Patched ==
    \/ last.op = "notify"
    \/ last.op = "define" /\ last.hit /\ last.err = "" /\ ~isProxy(last.style)

\* C6: after a patch of a live rule to a new style map (define on a cache hit
\* with a map that is no proxy, or a change notification) the rule has
\* exactly the properties that are valid in the new map, each with the value
\* and priority of the new map; a property the rule had that the new map
\* lacks is gone.
C6_PatchExact ==
    Patched =>
       LET entries == Entries(last.style)
           valid == ValidEntries(entries)
           style == rule[last.rid].style
       IN /\ DOMAIN style = {formatStyleKey(entries[i][1]) : i \in valid}
          /\ \A i \in valid :
                LET value == formatStyleValue(entries[i][2])
                    p == formatStyleKey(entries[i][1])
                IN /\ style[p].v = removePriority(value)
                   /\ style[p].prio =
                        (IF Includes(value, "!important") THEN "important" ELSE "")
          /\ \A p \in DOMAIN last.before :
                p \notin {formatStyleKey(entries[i][1]) : i \in valid} =>
                   p \notin DOMAIN style

\* define on a cached rule with color and font-size, with a map that has an
\* important color, a null fontSize and a zIndex
C6_Witness ==
    /\ last.op = "define" /\ last.hit /\ last.err = ""
    /\ last.style = PlainStyle(MapBlue)
    /\ DOMAIN last.before = {formatStyleKey(Color), formatStyleKey(FontSize)}
    /\ DOMAIN rule[last.rid].style = {formatStyleKey(Color), formatStyleKey(ZIndex)}
    /\ rule[last.rid].style[formatStyleKey(Color)] = [v |-> <<"blue">>, prio |-> "important"]

\* C7: a change notification of a subscribed reactive source leaves the rule
\* with the declarations of the source's current snapshot; the rule is the
\* same rule at the same position of its sheet, and no sheet gains or loses a
\* rule.
C7_NotifySyncsInPlace ==
    [][last'.op = "notify" =>
          LET r == last'.rid IN
          /\ sheet' = sheet
          /\ DOMAIN rule' = DOMAIN rule
          /\ rule'[r].selectorText = rule[r].selectorText
          /\ rule'[r].name = rule[r].name
          /\ rule'[r].style = ParseDeclarations(RuleDeclarations(snapshot'[last'.style.src]))
          /\ \A q \in DOMAIN rule \ {r} : rule'[q] = rule[q]
      ]_vars

\* the first of two rules of the persistent sheet was notified of a snapshot
\* that differs from the declarations it had
C7_Witness ==
    /\ last.op = "notify"
    /\ last.rid = 1
    /\ rule[1].listener
    /\ sheet[Readonly] = <<StyleEntry(1), StyleEntry(2)>>
    /\ snapshot[last.style.src] = MapBlue
    /\ formatStyleKey(FontSize) \in DOMAIN last.before
    /\ rule[1].style # last.before

\* the shells of a breakpoint that a sheet holds
ShellsOf(cssRules, screen) ==
    {i \in DOMAIN cssRules : cssRules[i].rid = 0 /\ cssRules[i].shell[2] = screen}

\* C8: define with a configured breakpoint changes the top-level dynamic
\* sheet never and the top-level persistent sheet at most by appending the
\* shell of that breakpoint, whatever the persistence; the rule is held by
\* the shell of that breakpoint alone, whose entry is in the persistent
\* sheet; the shells of every other breakpoint are left as they were.
C8_BreakpointShell ==
    [][(DefineStep /\ last'.screen \in mediaScreenRule) =>
          /\ sheet'[Dynamic] = sheet[Dynamic]
          /\ \/ sheet'[Readonly] = sheet[Readonly]
             \/ /\ sheet'[Readonly] = Append(sheet[Readonly], ShellEntry(last'.id))
                /\ \A i \in DOMAIN sheet[Readonly] : sheet[Readonly][i] # ShellEntry(last'.id)
          /\ last'.id[2] = last'.screen
          /\ \E i \in DOMAIN sheet'[Readonly] : sheet'[Readonly][i] = ShellEntry(last'.id)
          /\ \A id \in SheetIds :
                id[2] \in mediaScreenRule \ {last'.screen} => sheet'[id] = sheet[id]
          /\ last'.err = "" =>
                \A id \in SheetIds : Holds(sheet'[id], last'.rid) <=> id = last'.id
      ]_vars

\* a dynamic rule was defined at sm after a rule at xs: the persistent sheet
\* holds the two shells and nothing else, the dynamic sheet nothing
C8_Witness ==
    /\ last.op = "define" /\ last.err = "" /\ ~last.static
    /\ last.screen = "sm"
    /\ sheet[Dynamic] = <<>>
    /\ Len(sheet[Readonly]) = 2
    /\ ShellsOf(sheet[Readonly], "xs") = {1}
    /\ sheet[Readonly][2] = ShellEntry(<<"dynamic", "sm">>)
    /\ sheet[<<"dynamic", "sm">>] = <<StyleEntry(last.rid)>>

\* the text is empty or white space only
IsBlank(selector) == \A i \in DOMAIN selector : selector[i] = " "

\* the rule of the last define is persistent: held by the readonly sheet of
\* its screen, cached there, and recorded for no scope
PlacedPersistent ==
    /\ last.id[1] = "readonly"
    /\ \A id \in SheetIds : Holds(sheet[id], last.rid) <=> id = last.id
    /\ last.id \in DOMAIN sheetCSSRuleMap
    /\ last.selectorText \in DOMAIN sheetCSSRuleMap[last.id]
    /\ sheetCSSRuleMap[last.id][last.selectorText] = last.rid
    /\ rule[last.rid].owner = NoVNode
    /\ \A v \in DOMAIN vnodeCssRuleMap : last.id \notin DOMAIN vnodeCssRuleMap[v]

\* the rule of the last define is dynamic: held by the dynamic sheet of its
\* screen, not cached, and recorded for the current scope when there is one
PlacedDynamic ==
    /\ last.id[1] = "dynamic"
    /\ \A id \in SheetIds : Holds(sheet[id], last.rid) <=> id = last.id
    /\ last.id \notin DOMAIN sheetCSSRuleMap
    /\ ~last.hit
    /\ last.vnode # NoVNode =>
          /\ rule[last.rid].owner = last.vnode
          /\ last.vnode \in DOMAIN vnodeCssRuleMap
          /\ last.id \in DOMAIN vnodeCssRuleMap[last.vnode]
          /\ last.selectorText \in vnodeCssRuleMap[last.vnode][last.id]
          /\ onDispose[last.vnode] > 0

\* C9: without a readonly option the rule defined is persistent exactly when
\* the selector is not blank or no scope is current, and dynamic otherwise;
\* readonly true makes it persistent and readonly false dynamic, whatever the
\* selector and the scope.
C9_DefaultPersistence ==
    (last.op = "define" /\ last.err = "") =>
       LET persistent ==
              CASE last.readonly = "true" -> TRUE
                [] last.readonly = "false" -> FALSE
                [] OTHER -> ~IsBlank(last.selector) \/ last.vnode = NoVNode
       IN IF persistent THEN PlacedPersistent ELSE PlacedDynamic

\* inside a scope, a selector of white space and no readonly option: dynamic
C9_Witness ==
    /\ last.op = "define" /\ last.err = ""
    /\ last.readonly = "undef"
    /\ last.selector = <<" ">>
    /\ last.vnode = "v1"
    /\ PlacedDynamic
    /\ \E r \in DOMAIN rule : r # last.rid /\ Holds(sheet[Readonly], r)

\* the handle the cache holds for the sheet and selector of the define that
\* is being taken, 0 when there is none
CachedBefore ==
    IF /\ last'.id \in DOMAIN sheetCSSRuleMap
       /\ last'.selectorText \in DOMAIN sheetCSSRuleMap[last'.id]
    THEN sheetCSSRuleMap[last'.id][last'.selectorText]
    ELSE 0

SubsOf(r) == {i \in DOMAIN subs : subs[i].rule = r}

\* C11: after a define that resolves to a rule already cached, the rule has
\* the declarations of the style of that call: of the map, or of the current
\* snapshot of the reactive source.
C11_LaterDefineWins ==
    (last.op = "define" /\ last.hit /\ last.err = "") =>
       rule[last.rid].style = ParseDeclarations(RuleDeclarations(Entries(last.style)))

\* C12: every rule has at most one active subscription, and has one exactly
\* when it has a listener.
C12_OneSubscription ==
    \A r \in DOMAIN rule :
       /\ Cardinality(SubsOf(r)) <= 1
       /\ rule[r].listener <=> SubsOf(r) # {}

\* a define with a proxy hit a cached rule that is subscribed to the other
\* proxy
C12_Witness ==
    /\ last.op = "define" /\ last.hit /\ last.err = ""
    /\ isProxy(last.style)
    /\ rule[last.rid].listener
    /\ \E i \in SubsOf(last.rid) : subs[i].style # last.style

\* C13: after a define with a reactive proxy that resolves to a cached rule,
\* the one subscription of the rule is to that proxy, whatever the rule was
\* subscribed to before.
C13_RebindsToNewSource ==
    (last.op = "define" /\ last.hit /\ last.err = "" /\ isProxy(last.style)) =>
       /\ SubsOf(last.rid) # {}
       /\ \A i \in SubsOf(last.rid) : subs[i].style = last.style

\* the rule r has no active subscription after the step
Unsubscribed(r) == \A j \in DOMAIN subs' : subs'[j].rule # r

\* C14: disposing the listener of a rule clears the rule's listener reference
\* and ends its subscription, its declarations staying as they are; on a rule
\* without a listener the disposal changes nothing; a rule without a listener
\* is not altered by a change of a source or by a notification; and a define
\* with a reactive proxy that resolves to a cached rule without a listener
\* gives the rule one fresh subscription to that proxy.
C14_DisposeStopsUpdates ==
    [][/\ last'.op = "dispose" =>
             /\ ~rule'[last'.rid].listener
             /\ Unsubscribed(last'.rid)
             /\ rule'[last'.rid].style = rule[last'.rid].style
             /\ sheet' = sheet
             /\ ~rule[last'.rid].listener => (subs' = subs /\ rule' = rule)
       /\ last'.op \in {"change", "notify"} =>
             \A r \in DOMAIN rule : ~rule[r].listener => rule'[r] = rule[r]
       /\ (DefineStep /\ last'.hit /\ isProxy(last'.style) /\ ~rule[last'.rid].listener) =>
             /\ rule'[last'.rid].listener
             /\ \E j \in DOMAIN subs' :
                   /\ subs'[j] = [rule |-> last'.rid, style |-> last'.style,
                                  vnode |-> last'.vnode, pending |-> FALSE]
                   /\ \A k \in DOMAIN subs' : subs'[k].rule = last'.rid => k = j
      ]_vars

\* a listener was disposed; the sources have both changed since the rule got
\* its declarations, and the rule has not followed
C14_Witness ==
    /\ last.op = "dispose"
    /\ ~rule[last.rid].listener
    /\ subs = <<>>
    /\ snapshot["p1"] = MapBlue /\ snapshot["p2"] = MapBlue
    /\ rule[last.rid].style = ParseDeclarations(RuleDeclarations(MapRed))

\* C15: a subscription created by a define inside a scope belongs to that
\* scope; the end of a scope disposes every subscription of the scope and
\* clears the listener reference of its rule; a subscription created outside
\* any scope stays, with the listener reference of its rule, through every
\* step but the disposal by hand of that listener.
C15_ScopeEndDisposesListeners ==
    [][/\ (DefineStep /\ Len(subs') > Len(subs)) =>
             subs'[Len(subs')].vnode = last'.vnode
       /\ last'.op = "endScope" =>
             /\ \A j \in DOMAIN subs' : subs'[j].vnode # last'.vnode
             /\ \A i \in DOMAIN subs :
                   subs[i].vnode = last'.vnode =>
                      (~rule'[subs[i].rule].listener /\ Unsubscribed(subs[i].rule))
       /\ \A i \in DOMAIN subs :
             (subs[i].vnode = NoVNode
              /\ ~(last'.op = "dispose" /\ last'.rid = subs[i].rule)) =>
                /\ rule'[subs[i].rule].listener
                /\ \E j \in DOMAIN subs' :
                      /\ subs'[j].rule = subs[i].rule
                      /\ subs'[j].style = subs[i].style
                      /\ subs'[j].vnode = NoVNode
      ]_vars

\* the scope has ended and the listener of its rule was disposed with it
C15_Witness ==
    /\ last.op = "endScope"
    /\ last.rid # 0
    /\ ~rule[last.rid].listener
    /\ subs = <<>>
    /\ last.vnode \in ended

\* the text before the first ':' or '['
RECURSIVE BeforeFirst(_)
BeforeFirst(s) ==
    IF s = <<>> \/ Head(s) \in {":", "["} THEN <<>>
    ELSE <<Head(s)>> \o BeforeFirst(Tail(s))

\* C16 as stated, on the selector as it is passed: empty or blank gives a
\* generated name and '.' + name; a head that starts with neither '.' nor '#'
\* gives the head as name and '.' + the whole selector; otherwise the head
\* without its first character and the selector verbatim.
C16_ResolverVerbatim ==
    (last.op = "parseSelector" /\ last.err = "") =>
       IF IsBlank(last.selector)
       THEN last.selectorText = <<".">> \o last.name
       ELSE IF Head(last.selector) \notin {".", "#"}
       THEN /\ last.name = BeforeFirst(last.selector)
            /\ last.selectorText = <<".">> \o last.selector
       ELSE /\ last.name = Tail(BeforeFirst(last.selector))
            /\ last.selectorText = last.selector

\* C16, amended: the resolver works on the selector with the white space
\* around it removed, and the name is the head with the white space around
\* it removed; a trimmed selector that starts with '@' is the only one
\* rejected; every resolved selectorText starts with '.' or '#'.
C16_ResolverTrimmed ==
    last.op = "parseSelector" =>
       LET t == Trim(last.selector)
           head == Trim(BeforeFirst(t))
       IN /\ last.err # "" <=> (t # <<>> /\ Head(t) = "@")
          /\ last.err = "" =>
                /\ IF t = <<>>
                   THEN /\ last.selectorText = <<".">> \o last.name
                        /\ Len(last.name) > Len(last.prefix)
                        /\ SubSeq(last.name, 1, Len(last.prefix)) = last.prefix
                   ELSE IF Head(t) \notin {".", "#"}
                   THEN /\ last.name = head
                        /\ last.selectorText = <<".">> \o t
                   ELSE /\ last.name = Tail(head)
                        /\ last.selectorText = t
                /\ Head(last.selectorText) \in {".", "#"}

\* a selector with white space before it and before its pseudo-class
C16_Witness ==
    /\ last.op = "parseSelector" /\ last.err = ""
    /\ last.selector = <<" ", "a", ":">>
    /\ last.name = <<"a">>
    /\ last.selectorText = <<".", "a", ":">>

\* the key with a '-' put between a lower-case letter and the upper-case letter
\* that follows it, all in lower case
RECURSIVE HyphenFrom(_, _)
HyphenFrom(key, i) ==
    IF i > Len(key) THEN <<>>
    ELSE (IF i > 1 /\ IsLower(key[i - 1]) /\ IsUpper(key[i]) THEN <<"-">> ELSE <<>>)
         \o <<ToLowerChar(key[i])>> \o HyphenFrom(key, i + 1)

HyphenKey(key) == HyphenFrom(key, 1)

\* the value is white space around one '!important' and nothing else
BareImportant(str) ==
    \E i \in DOMAIN str :
       str[i] = "!important" /\ \A j \in DOMAIN str \ {i} : str[j] = " "

\* the pair is left out of the serialization
LeftOut(value) ==
    \/ value.t \notin {"str", "num"}
    \/ value.t = "str" /\ (IsBlank(value.s) \/ BareImportant(value.s))

\* the text of a value: the decimal digits of a number, the string without
\* the white space around it
ValueText(value) == IF value.t = "num" THEN <<ToString(value.n)>> ELSE Trim(value.s)

RECURSIVE ExpectedBlock(_)
ExpectedBlock(entries) ==
    IF entries = <<>> THEN <<>>
    ELSE (IF LeftOut(Head(entries)[2]) THEN <<>>
          ELSE HyphenKey(Head(entries)[1]) \o <<":", " ">> \o ValueText(Head(entries)[2])
               \o <<";">>)
         \o ExpectedBlock(Tail(entries))

\* C17: serializing a style map does not fail, whatever its values: a pair
\* whose value is empty, blank, null, a bare '!important', or neither a string
\* nor a number is left out, and every other pair appears once, in the order
\* of the map, as 'hyphenated-key: value;', a '!important' in the value kept.
C17_SerializeDropsInvalid ==
    last.op = "cssStyleMapToCssRuleText" =>
       /\ last.err = ""
       /\ last.block = ExpectedBlock(last.style.m)
       /\ last.text = <<".", "a", "{">> \o last.block \o <<"}">>

\* a bare '!important' is left out and an important red is kept
C17_Witness ==
    /\ last.op = "cssStyleMapToCssRuleText"
    /\ last.style.m = << <<FontSize, StrVal(<<"!important">>)>>,
                         <<Color, StrVal(<<"red", " ", "!important">>)>> >>
    /\ last.block = <<"c", ":", " ", "red", " ", "!important", ";">>

\* the pieces of a text that end at a ';'
RECURSIVE Pieces(_, _)
Pieces(text, piece) ==
    IF text = <<>> THEN (IF piece = <<>> THEN {} ELSE {piece})
    ELSE IF Head(text) = ";" THEN {piece} \cup Pieces(Tail(text), <<>>)
    ELSE Pieces(Tail(text), Append(piece, Head(text)))

\* the part of a piece before its first ': '
RECURSIVE KeyPart(_)
KeyPart(piece) ==
    IF Len(piece) < 2 THEN piece
    ELSE IF piece[1] = ":" /\ piece[2] = " " THEN <<>>
    ELSE <<Head(piece)>> \o KeyPart(Tail(piece))

\* a block split back into its 'key: value;' pairs
SplitPairs(block) ==
    {<<KeyPart(p), SubSeq(p, Len(KeyPart(p)) + 3, Len(p))>> : p \in Pieces(block, <<>>)}

\* every pair of the map is one the serializer keeps
AllValid(entries) == \A i \in DOMAIN entries : ~LeftOut(entries[i][2])

\* C18 as stated: for a map of valid pairs, the block split back into
\* 'key: value;' pairs is the set of (hyphenated key, value) of the map.
C18_RoundTripExact ==
    (last.op = "cssStyleMapToCssRuleText" /\ AllValid(last.style.m)) =>
       SplitPairs(last.block) =
          {<<HyphenKey(last.style.m[i][1]),
             IF last.style.m[i][2].t = "num" THEN <<ToString(last.style.m[i][2].n)>>
             ELSE last.style.m[i][2].s>> : i \in DOMAIN last.style.m}

\* C18, amended: for a map of valid pairs whose values hold no ';', the block
\* split back into 'key: value;' pairs is the set of (hyphenated key, text of
\* the value without the white space around it) of the map.
C18_RoundTripTrimmed ==
    (/\ last.op = "cssStyleMapToCssRuleText"
     /\ AllValid(last.style.m)
     /\ \A i \in DOMAIN last.style.m : ~Includes(last.style.m[i][2].s, ";")) =>
       SplitPairs(last.block) =
          {<<HyphenKey(last.style.m[i][1]), ValueText(last.style.m[i][2])>> :
              i \in DOMAIN last.style.m}

\* a number under a key of two humps and a string with white space before it
C18_Witness ==
    /\ last.op = "cssStyleMapToCssRuleText"
    /\ last.style.m = << <<<<"a", "B", "c", "D">>, NumVal(0)>>,
                         <<FontSize, StrVal(<<" ", "red">>)>> >>
    /\ SplitPairs(last.block) =
          {<<<<"a", "-", "b", "c", "-", "d">>, <<"0">>>>,
           <<<<"f", "-", "s">>, <<"red">>>>}

\* C19: every successful CssInJs.create(options) call and CssInJs.instance
\* read returns the one engine the first of them constructed, and that engine
\* keeps the configuration of its construction: the defaults overridden by the
\* options of that first call (the defaults alone when it was a read of
\* instance or a create without options); once the engine exists neither it
\* nor its configuration changes, whatever options a later create passes.
FirstConfig(options) ==
    [prefix |-> IF options # <<>> /\ options[1].prefix # <<>>
                THEN options[1].prefix[1] ELSE <<>>,
     xs |-> IF options # <<>> /\ options[1].xs # <<>>
            THEN options[1].xs[1] ELSE "@media screen and (max-width: 480px)"]

C19_Singleton ==
    [][(last'.op \in {"create", "instance"} /\ ~last'.err) =>
          /\ last'.returned = 1
          /\ instance'.id = 1
          /\ instance'.made = 1
          /\ last'.config = instance'.options
          /\ IF instance.id = 0
             THEN instance'.options = FirstConfig(last'.options)
             ELSE instance' = instance]_vars

\* a later create passes options that differ from the engine's configuration
C19_Witness ==
    /\ last.op = "create"
    /\ ~last.err
    /\ last.options # <<>>
    /\ last.options[1].prefix = <<<<"q", "-">>>>
    /\ instance.options.prefix = <<"p", "-">>
    /\ instance.options.xs = "@media (max-width: 320px)"

\* C20: a name returned by makeClassName is different from every name it
\* returned before for the same prefix (with the empty prefix: any two names
\* of the generator differ), whatever random parts are drawn and however many
\* names were generated in between.
C20_NamesDiffer ==
    [][last'.op = "makeClassName" =>
          <<last'.prefix, last'.name>> \notin last.names]_vars

\* the names of the counters 0 and 52 with the same random part and prefix:
\* the counter part has grown to two letters
C20_Witness ==
    /\ last.op = "makeClassName"
    /\ last.name = <<"a", "a", "b", "a">>
    /\ last.prefix = <<>>
    /\ <<<<>>, <<"a", "a", "a">>>> \in last.names

\* C21: a create call or instance read made while no engine exists and
\* window.document is missing throws, creates no stylesheet and leaves the
\* singleton unset; the first call made where the document exists then
\* constructs the engine with both of its top-level stylesheets, so an engine
\* that the static methods return always has exactly its two stylesheets.
C21_NoPartialEngine ==
    [][last'.op \in {"create", "instance"} =>
          /\ (instance.id = 0 /\ ~last'.document) =>
                /\ last'.err
                /\ instance'.id = 0
                /\ instance'.sheets = instance.sheets
          /\ (instance.id = 0 /\ last'.document) =>
                /\ ~last'.err
                /\ instance'.id # 0
                /\ instance'.sheets = instance.sheets + 2
          /\ ~last'.err => (last'.returned = instance'.id /\ instance'.sheets = 2)]_vars

\* a create that returns the engine after an earlier construction has thrown
C21_Witness ==
    /\ last.op = "create"
    /\ ~last.err
    /\ instance.failed
    /\ instance.id = 1
    /\ instance.sheets = 2

\* C22: a define whose rule text the stylesheet backend rejects (a selector
\* it cannot parse, or declarations that close the block early) fails with
\* the insertion error and changes nothing: no rule, no cache entry, no
\* subscription, no scope record and no teardown callback is added.  A define
\* of the same selector that follows the failure with styles the backend
\* takes is a cache miss: it appends one new rule to the sheet with the
\* declarations of the styles given, and caches it when it is persistent.
Rejected(selectorText, style) ==
    \/ selectorText[Len(selectorText)] = ":"
    \/ \E i \in DOMAIN Entries(style) :
          /\ Entries(style)[i][2].t = "str"
          /\ Includes(Entries(style)[i][2].s, "}")

C22_RejectedLeavesNothing ==
    [][last'.op = "define" =>
          /\ (CachedCssRule(last'.id, last'.selectorText, last'.static) = 0
              /\ Rejected(last'.selectorText, last'.style))
                => last'.err = InsertError
          /\ last'.err = InsertError =>
                /\ last'.rid = 0
                /\ rule' = rule
                /\ sheet' = sheet
                /\ sheetCSSRuleMap' = sheetCSSRuleMap
                /\ subs' = subs
                /\ vnodeCssRuleMap' = vnodeCssRuleMap
                /\ onDispose' = onDispose
          /\ (last'.retry /\ last'.err = "") =>
                /\ ~last'.hit
                /\ last'.rid = Len(rule) + 1
                /\ Len(rule') = Len(rule) + 1
                /\ sheet'[last'.id] = Append(sheet[last'.id], StyleEntry(last'.rid))
                /\ rule'[last'.rid].selectorText = last'.selectorText
                /\ rule'[last'.rid].style =
                      ParseDeclarations(RuleDeclarations(Entries(last'.style)))
                /\ last'.static =>
                      sheetCSSRuleMap'[last'.id][last'.selectorText] = last'.rid]_vars

\* the define of '.a' that follows a rejected define of '.a' in the
\* persistent sheet inserts the first rule of the engine
C22_Witness ==
    /\ last.op = "define"
    /\ last.retry
    /\ last.err = ""
    /\ last.static
    /\ last.selectorText = <<".", "a">>
    /\ Len(rule) = 1

\* C23: in the engine of src/src/css-in-js.ts, a rule defined with only:true
\* stays when its component unmounts; removeStaticCssRule(selectorText)
\* leaves no style rule with that selector in any bucket that held such a
\* rule defined with only:true; and a define with only:true of the same
\* selector right after it adds exactly one style rule with that selector.
LegacySelected(l, selectorText) ==
    UNION {{<<b, i>> : i \in {j \in DOMAIN l.sheet[b] :
                                l.sheet[b][j].kind = "style"
                                /\ l.sheet[b][j].selectorText = selectorText}} :
           b \in DOMAIN l.sheet}

C23_RemoveStaticRemoves ==
    [][/\ last'.op = "unmount" =>
             \A b \in DOMAIN legacy.sheet : \A i \in DOMAIN legacy.sheet[b] :
                legacy.sheet[b][i].only =>
                   \E j \in DOMAIN legacy'.sheet[b] : legacy'.sheet[b][j] = legacy.sheet[b][i]
       /\ last'.op = "removeStaticCssRule" =>
             \A b \in DOMAIN legacy.sheet :
                (\E i \in DOMAIN legacy.sheet[b] :
                    /\ legacy.sheet[b][i].only
                    /\ legacy.sheet[b][i].selectorText = last'.selectorText)
                => ~\E j \in DOMAIN legacy'.sheet[b] :
                       /\ legacy'.sheet[b][j].kind = "style"
                       /\ legacy'.sheet[b][j].selectorText = last'.selectorText
       /\ (last'.op = "define" /\ last'.only /\ last.op = "removeStaticCssRule"
           /\ last.selectorText = last'.selectorText) =>
             Cardinality(LegacySelected(legacy', last'.selectorText)) =
                Cardinality(LegacySelected(legacy, last'.selectorText)) + 1]_vars

\* C24: in the engine of src/src/css-in-js.ts, when a component unmounts,
\* every rule that a define without only made in it is absent from its
\* bucket afterwards, whatever its selector (generated class, custom class,
\* id) and however many reactive updates it had.
C24_UnmountRemovesRules ==
    [][last'.op = "unmount" =>
          \A i \in DOMAIN last'.hooks :
             ~last'.hooks[i].only =>
                ~\E j \in DOMAIN legacy'.sheet[last'.hooks[i].bucket] :
                     legacy'.sheet[last'.hooks[i].bucket][j].by = last'.hooks[i].by]_vars

\* C26: a define that attaches a non-persistent rule to a scope leaves
\* exactly one teardown callback registered on that scope, whether it is the
\* first rule of the scope or a further one, and the rule's selector is in
\* the scope's record; after the scope has ended the scope has no record.
C26_TeardownRegisteredOnce ==
    [][/\ (last'.op = "define" /\ last'.err = "" /\ ~last'.static
           /\ last'.vnode # NoVNode) =>
             /\ onDispose'[last'.vnode] = 1
             /\ last'.vnode \in DOMAIN vnodeCssRuleMap'
             /\ last'.id \in DOMAIN vnodeCssRuleMap'[last'.vnode]
             /\ last'.selectorText \in vnodeCssRuleMap'[last'.vnode][last'.id]
       /\ last'.op = "endScope" => last'.vnode \notin DOMAIN vnodeCssRuleMap']_vars

\* C27 as stated: the persistent sheet holds at most one shell per configured
\* breakpoint, which every define with that breakpoint reuses.
C27_OneShellPerBreakpoint ==
    \A screen \in mediaScreenRule : Cardinality(ShellsOf(sheet[Readonly], screen)) <= 1

\* C27: the persistent sheet holds at most one shell per configured
\* breakpoint and persistence, namely exactly the shells of this.sheet.screen,
\* and no other sheet holds a shell; a define with a breakpoint whose shell
\* for its persistence exists leaves the persistent sheet as it was and uses
\* that shell, and one whose shell does not exist appends it.
C27_OneShellPerBreakpointAndType ==
    [][/\ \A id \in SheetIds :
             Cardinality({i \in DOMAIN sheet'[Readonly] :
                             sheet'[Readonly][i] = ShellEntry(id)})
                = IF id \in screenSheet' THEN 1 ELSE 0
       /\ \A id \in SheetIds \ {Readonly} : \A i \in DOMAIN sheet'[id] : sheet'[id][i].rid # 0
       /\ (last'.op = "define" /\ last'.screen \in mediaScreenRule) =>
             /\ last'.id = <<IF last'.static THEN "readonly" ELSE "dynamic", last'.screen>>
             /\ last'.id \in screenSheet'
             /\ last'.id \in screenSheet => sheet'[Readonly] = sheet[Readonly]
             /\ last'.id \notin screenSheet =>
                   sheet'[Readonly] = Append(sheet[Readonly], ShellEntry(last'.id))]_vars

\* xs has a shell for persistent and one for dynamic rules, and the last
\* define, a repetition of the persistent '.a' at xs, reused the first
C27_Witness ==
    /\ last.op = "define" /\ last.err = "" /\ last.static /\ last.hit
    /\ last.screen = "xs"
    /\ ShellsOf(sheet[Readonly], "xs") = {1, 2}
    /\ sheet[Readonly][1] = ShellEntry(<<"readonly", "xs">>)
    /\ sheet[<<"dynamic", "xs">>] # <<>>

\* C28 as stated: a patch of a live rule (define on a cache hit with a map
\* that is no proxy, or a change notification) with a style map whose
\* formatted declarations are the declarations the rule has sets and removes
\* no property of the rule.
C28_EqualPatchTouchesNothing ==
    [][(/\ \/ last'.op = "notify"
           \/ last'.op = "define" /\ last'.hit /\ last'.err = "" /\ ~isProxy(last'.style)
        /\ FormatedStyles(Entries(last'.style)) = last'.before)
         => TouchedProperties([selectorText |-> rule[last'.rid].selectorText,
                               style |-> last'.before], last'.style) = {}]_vars

\* the value of a map with every '!important' marker taken out, trimmed
WithoutMarker(value) ==
    IF value.t = "num" THEN <<ToString(value.n)>>
    ELSE Trim(SelectSeq(value.s, LAMBDA t : t # "!important"))

\* the string values of a map that carry the '!important' marker
CarriesMarker(value) == value.t = "str" /\ Includes(value.s, "!important")

\* C29: when a rule is patched (define on a cache hit with a map that is no
\* proxy, or a change notification), each property of a valid entry of the
\* new map has priority 'important' exactly when the entry's value carries
\* the '!important' marker, and its stored value is the entry's value
\* without the marker; a property that was important before and whose new
\* value has no marker has no priority afterwards.
C29_PriorityFollowsMarker ==
    [][(\/ last'.op = "notify"
        \/ last'.op = "define" /\ last'.hit /\ last'.err = "" /\ ~isProxy(last'.style))
         => LET entries == snapshot'[last'.style.src]
                map == IF last'.style.kind = "map" THEN last'.style.m ELSE entries
                style == rule'[last'.rid].style
            IN \A i \in DOMAIN map :
                  LET p == formatStyleKey(map[i][1])
                      value == map[i][2]
                  IN (value.t \in {"str", "num"} /\ WithoutMarker(value) # <<>>) =>
                        /\ p \in DOMAIN style
                        /\ style[p].prio = "important" <=> CarriesMarker(value)
                        /\ style[p].v = WithoutMarker(value)
                        /\ (/\ p \in DOMAIN last'.before
                            /\ last'.before[p].prio = "important"
                            /\ ~CarriesMarker(value)) => style[p].prio = ""]_vars

\* a notification patched a rule whose color was important with a map whose
\* color has no marker, and the color has no priority now
C29_Witness ==
    /\ last.op = "notify"
    /\ last.before[formatStyleKey(Color)] = [v |-> <<"blue">>, prio |-> "important"]
    /\ snapshot[last.style.src] = MapRed
    /\ rule[last.rid].style[formatStyleKey(Color)] = [v |-> <<"red">>, prio |-> ""]

\* the selector text a removal request names: trimmed, as a class selector
RequestedSelector(selectorText) ==
    IF StartsWith(Trim(selectorText), ".") THEN Trim(selectorText)
    ELSE <<".">> \o Trim(selectorText)

\* C30: a removal request for one selector removes from the bucket the style
\* rule with the highest index whose selector text is the requested one, and
\* no other rule; every other rule of the bucket stays, in the same order,
\* earlier rules with the same selector among them; with no such rule the
\* bucket is unchanged; no other bucket changes.
C30_RemovesHighestMatch ==
    [][last'.op = "removeStaticCssRule" =>
          LET cssRules == legacy.sheet["static"]
              wanted == RequestedSelector(last'.selectorText)
              matching == {i \in DOMAIN cssRules :
                              /\ cssRules[i].kind = "style"
                              /\ cssRules[i].selectorText = wanted}
          IN /\ \A b \in DOMAIN legacy.sheet \ {"static"} :
                   legacy'.sheet[b] = legacy.sheet[b]
             /\ matching = {} => legacy'.sheet["static"] = cssRules
             /\ matching # {} =>
                   \E i \in matching :
                      /\ \A j \in matching : j <= i
                      /\ Len(legacy'.sheet["static"]) = Len(cssRules) - 1
                      /\ \A k \in 1..(i - 1) : legacy'.sheet["static"][k] = cssRules[k]
                      /\ \A k \in (i + 1)..Len(cssRules) :
                            legacy'.sheet["static"][k - 1] = cssRules[k]]_vars

\* '.a' was defined twice outside a component and a request for '.a' removed
\* the second rule: the first is what the bucket holds
C30_Witness ==
    /\ last.op = "removeStaticCssRule"
    /\ last.selectorText = <<".", "a">>
    /\ legacy.calls = 2
    /\ Len(legacy.sheet["static"]) = 1
    /\ legacy.sheet["static"][1].kind = "style"
    /\ legacy.sheet["static"][1].selectorText = <<".", "a">>
    /\ legacy.sheet["static"][1].by = 1

\* the (bucket, selectorText) pairs of the record of a scope
RecordPairs(map, v) ==
    IF v \in DOMAIN map
    THEN {pair \in (DOMAIN map[v]) \X UNION {map[v][i] : i \in DOMAIN map[v]} :
             pair[2] \in map[v][pair[1]]}
    ELSE {}

\* C31: in every reachable state each (bucket, selectorText) pair of a scope
\* record names a non-persistent bucket that has no rule cache, and a rule
\* with that selector text which that scope owns is listed in the bucket;
\* a record gains a pair only by a define that succeeded in that scope with
\* a non-persistent rule, and the pair is the bucket and selector of that
\* define.
C31_RecordsHoldOwnDynamicRules ==
    [][/\ \A v \in DOMAIN vnodeCssRuleMap' : \A pair \in RecordPairs(vnodeCssRuleMap', v) :
             /\ v \in VNodes
             /\ pair[1][1] = "dynamic"
             /\ pair[1] \notin DOMAIN sheetCSSRuleMap'
             /\ \E i \in DOMAIN sheet'[pair[1]] :
                   LET r == sheet'[pair[1]][i].rid
                   IN r # 0 /\ rule'[r].selectorText = pair[2] /\ rule'[r].owner = v
       /\ \A v \in VNodes :
             \A pair \in RecordPairs(vnodeCssRuleMap', v) \ RecordPairs(vnodeCssRuleMap, v) :
                /\ last'.op = "define" /\ last'.err = "" /\ last'.vnode = v
                /\ ~(IF last'.readonly = "undef" THEN Trim(last'.selector) # <<>>
                     ELSE last'.readonly = "true")
                /\ pair = <<last'.id, last'.selectorText>>]_vars

\* the scope v1 holds the pair of a generated rule it defined, while the
\* persistent bucket holds the cached rule '.a', which is in no record
C31_Witness ==
    /\ "v1" \in DOMAIN vnodeCssRuleMap
    /\ Cardinality(RecordPairs(vnodeCssRuleMap, "v1")) = 1
    /\ Readonly \in DOMAIN sheetCSSRuleMap
    /\ <<".", "a">> \in DOMAIN sheetCSSRuleMap[Readonly]
    /\ \A v \in DOMAIN vnodeCssRuleMap : \A pair \in RecordPairs(vnodeCssRuleMap, v) :
          pair[1] = Dynamic /\ pair[2] # <<".", "a">>

\* C32 as stated: deduplication is per bucket and selector.  After a define
\* with only the targeted bucket holds a rule with the selector of the
\* define, whatever the other buckets hold: a selector defined with only
\* without a breakpoint and then with a breakpoint has one rule in each.
C32_DedupePerBucket ==
    [][(last'.op = "define" /\ last'.only) =>
          Cardinality({i \in DOMAIN legacy'.sheet[last'.bucket] :
                          /\ legacy'.sheet[last'.bucket][i].kind = "style"
                          /\ legacy'.sheet[last'.bucket][i].selectorText = last'.selectorText
                          /\ legacy'.sheet[last'.bucket][i].only}) = 1]_vars

\* C33: in every reachable state each entry of a rule cache, bucket and
\* selectorText to rule, names a rule that exists, has that selector text
\* and is listed, once, in the rule list of that bucket.
C33_CacheEntriesLive ==
    \A id \in DOMAIN sheetCSSRuleMap : \A t \in DOMAIN sheetCSSRuleMap[id] :
       LET r == sheetCSSRuleMap[id][t]
       IN /\ r \in DOMAIN rule
          /\ rule[r].selectorText = t
          /\ Cardinality({i \in DOMAIN sheet[id] : sheet[id][i].rid = r}) = 1

\* the cached rule '.a' of the xs shell has been patched by a notification
\* and the scope that defined a generated rule has ended
C33_Witness ==
    /\ <<"readonly", "xs">> \in DOMAIN sheetCSSRuleMap
    /\ <<".", "a">> \in DOMAIN sheetCSSRuleMap[<<"readonly", "xs">>]
    /\ rule[sheetCSSRuleMap[<<"readonly", "xs">>][<<".", "a">>]].style
          = FormatedStyles(MapBlue)
    /\ "v1" \in ended
    /\ Len(rule) = 2

\* C34 as stated: for every style map, the rule inserted from the map's rule
\* text and a rule with any prior declarations patched to the map end with
\* the same properties, values and priorities.
C34_InsertAndPatchAgree ==
    last.op = "agree" => last.inserted = last.patched

C36_HookRestored ==
    [][(last'.op = "unmount" /\ last'.hooks # <<>>) =>
          legacy'.hooks[last'.widget] = <<>>]_vars

\* C37 as stated: in the engine of src/src/css-in-js.ts a reactive update of
\* one rule leaves every rule that another define call created in its bucket,
\* also a rule with the same selector in the same bucket: each such rule is
\* in the bucket afterwards, with the style it had.
C37_UpdateTouchesOwnRuleOnly ==
    [][last'.op = "notify" =>
          \A b \in DOMAIN legacy.sheet : \A i \in DOMAIN legacy.sheet[b] :
             legacy.sheet[b][i].by # last'.by =>
                \E j \in DOMAIN legacy'.sheet[b] : legacy'.sheet[b][j] = legacy.sheet[b][i]]_vars

\* C38 as stated: a StyledWidget constructed without the forCss prop gets a
\* class name that no instance constructed before it has, and an instance
\* with a forCss that is not empty has exactly that value as its class name.
C38_InstancesGetOwnNames ==
    [][last'.op = "StyledWidget" =>
          IF last'.forCss = <<>>
          THEN \A i \in DOMAIN last.instances :
                  last.instances[i].className # last'.className
          ELSE last'.forCss[1] # <<>> => last'.className = last'.forCss[1]]_vars

====
